---- MODULE Spec2Model ----
(***************************************************************************)
(* Budget analysis tool: the transaction loaders and the derived           *)
(* analytics of scripts/analysis.py, scripts/generate_dashboard.py and     *)
(* scripts/generate_business_dashboard.py.                                 *)
(*                                                                         *)
(* Money is kept in integer thousandths of a dollar, so that rounding to   *)
(* two decimals is a real operation: 45000 is $45.00.  A parsed amount is  *)
(* a record [nan, v]: nan = TRUE is pandas' NaN.  A parsed date is a record         *)
(* [nat, y, m, d]: nat = TRUE is pandas' NaT.  A raw CSV cell records how  *)
(* the text of the cell is written (field k), which is what the parsers    *)
(* look at.                                                                *)
(***************************************************************************)
EXTENDS Integers, Sequences, FiniteSets, TLC

VARIABLES
    sources,    \* the CSV files of DATA_DIR, in glob order
    pc,         \* position of the run: "loop", "done", "error" of load_transactions, "open" with the page in a browser
    i,          \* index of the next source of the for loop
    all_dfs,    \* the frames accepted so far (all_dfs)
    warnings,   \* indices of the sources skipped with a printed warning
    error,      \* the exception that ended the run, "none" if none
    df,         \* the frame load_transactions returned
    stats,      \* what get_summary_stats(df) returned
    business,   \* what process_business_data(df) returned
    breakdown,  \* what category_breakdown(df, purchases_only) returned
    monthly,    \* what monthly_totals(df, purchases_only) returned
    velocity,   \* what spending_velocity(df) returned
    dow,        \* what day_of_week_analysis(df) returned
    recurring,  \* what find_recurring_charges(df, threshold_months) returned
    SUBSCRIPTIONS,  \* the subscription catalog of the dashboard page
    DATA,       \* what process_data(df) returned, embedded in the page
    payments,   \* what getRecurringPayments() returned
    subscriptions,  \* what getSubscriptions() returned
    merchants,  \* what top_merchants(df, n) returned
    impulse,    \* what detect_impulse_spending(df) returned
    currentYear,        \* the page's year filter
    currentMonth,       \* the page's month filter, 'all' or a two-digit month
    currentView,        \* the page's view tab
    pinnedCategory,     \* the row whose tooltip is pinned, or null
    expandedTooltip,    \* whether the tooltip lists every transaction
    currentTooltipData, \* what showTooltip kept for expansion, or null
    tooltip,    \* the #tooltip element: its classes and its expand link
    funnel,     \* the category rows renderFunnel left in #funnel
    dog,        \* what getDogData() returned
    analysis_df,    \* what analysis.load_transactions() returned
    business_df     \* what generate_business_dashboard.load_transactions() returned

loader == <<sources, pc, i, all_dfs, warnings, error>>
page == <<currentYear, currentMonth, currentView, pinnedCategory, expandedTooltip,
          currentTooltipData, tooltip, funnel, dog>>
later == <<merchants, impulse, page, analysis_df, business_df>>
views == <<velocity, dow, recurring, SUBSCRIPTIONS, DATA, payments, subscriptions, later>>
results == <<stats, business, breakdown, monthly, views>>
vars == <<sources, pc, i, all_dfs, warnings, error, df, stats, business, breakdown, monthly,
          velocity, dow, recurring, SUBSCRIPTIONS, DATA, payments, subscriptions,
          merchants, impulse, currentYear, currentMonth, currentView, pinnedCategory,
          expandedTooltip, currentTooltipData, tooltip, funnel, dog,
          analysis_df, business_df>>

----------------------------------------------------------------------------
(* Bounds of the model *)

MaxSources == 2     \* CSV files in the data directory
MaxRows == 2        \* data rows over all the files together

----------------------------------------------------------------------------
(* Raw CSV cells *)

NumCell(n) == [k |-> "num", v |-> n]
BlankCell == [k |-> "blank", v |-> 0]
TextCell == [k |-> "text", v |-> 0]

MDY(yy, mm, dd) == [k |-> "mdy", y |-> yy, m |-> mm, d |-> dd]
YMD(yy, mm, dd) == [k |-> "ymd", y |-> yy, m |-> mm, d |-> dd]
(* Parsed values *)

NaN == [nan |-> TRUE, v |-> 0]
Val(n) == [nan |-> FALSE, v |-> n]
NaT == [nat |-> TRUE, y |-> 0, m |-> 0, d |-> 0]
Day(yy, mm, dd) == [nat |-> FALSE, y |-> yy, m |-> mm, d |-> dd]
NA == "nan"

\* pd.to_numeric(col, errors='coerce'): a number parses, anything else is NaN
to_numeric(cell) == IF cell.k = "num" THEN Val(cell.v) ELSE NaN

to_datetime(cell, fmt) ==
    IF cell.k = fmt THEN Day(cell.y, cell.m, cell.d) ELSE NaT

\* comparisons with NaN are False
Gt0(a) == ~a.nan /\ a.v > 0
Lt0(a) == ~a.nan /\ a.v < 0

----------------------------------------------------------------------------
(* The CSV files the loader may find *)

ColsA == {"Date", "Amount", "Description", "Category"}
RowA(dt, amt, desc, cat) ==
    [Date |-> dt, Amount |-> amt, Description |-> desc, Category |-> cat]

RowB(dt, debit, credit, desc, cat) ==
    ("Transaction Date" :> dt) @@
    [Debit |-> debit, Credit |-> credit, Description |-> desc, Category |-> cat]

\* the directory listings of at most k files with at most n rows together,
\* each file of one shape with rows of that shape's menu
RECURSIVE Listings(_, _)
Listings(k, n) ==
    \* the shapes of file: Schema A, Schema B, and headers that are neither: no
    \* date and amount column at all, no Amount, a 'Transaction Date' without
    \* Debit and Credit, no Description
    LET Shapes ==
            LET RowsA ==
                    { RowA(MDY(2024, 1, 5), NumCell(45000), "NETFLIX.COM", "Entertainment"),
                      RowA(MDY(2024, 1, 5), NumCell(45000), "NETFLIX.COM", "Shopping"),
                      RowA(MDY(2024, 2, 5), TextCell, "AMAZON", "Shopping"),
                      RowA([k |-> "blank", y |-> 0, m |-> 0, d |-> 0], BlankCell, "AMAZON", "Shopping"),
                      RowA(YMD(2024, 2, 5), NumCell(15490), "NETFLIX.COM", "Entertainment") }
            IN  LET RowsB ==
                        { RowB(YMD(2024, 1, 5), NumCell(45000), BlankCell, "NETFLIX.COM", "Streaming"),
                          RowB(YMD(2024, 2, 5), NumCell(0), NumCell(50000), "PAYMENT", "Payment"),
                          RowB(YMD(2024, 2, 5), TextCell, BlankCell, "AMAZON", "Shopping"),
                          RowB(YMD(2024, 2, 5), NumCell(-5000), BlankCell, "AMAZON", "Shopping"),
                          RowB([k |-> "text", y |-> 0, m |-> 0, d |-> 0], NumCell(15490), BlankCell, "NETFLIX.COM", "Streaming") }
                IN  { [cols |-> ColsA, menu |-> RowsA],
                      [cols |-> {"Transaction Date", "Debit", "Credit", "Description", "Category"}, menu |-> RowsB],
                      [cols |-> {"Posted", "Value", "Description"},
                       menu |-> { [Posted |-> MDY(2024, 1, 5), Value |-> NumCell(45000),
                                   Description |-> "NETFLIX.COM"] }],
                      [cols |-> {"Date", "Description", "Category"},
                       menu |-> { [Date |-> MDY(2024, 1, 5), Description |-> "NETFLIX.COM",
                                   Category |-> "Shopping"] }],
                      [cols |-> {"Transaction Date", "Amount", "Description", "Category"},
                       menu |-> { ("Transaction Date" :> YMD(2024, 1, 5)) @@
                                  [Amount |-> NumCell(45000), Description |-> "NETFLIX.COM",
                                   Category |-> "Shopping"] }],
                      [cols |-> {"Date", "Amount", "Category"},
                       menu |-> { [Date |-> MDY(2024, 1, 5), Amount |-> NumCell(45000),
                                   Category |-> "Shopping"] }] }
    IN  IF k = 0 THEN {<<>>}
        ELSE {<<>>} \cup
             UNION {LET first == UNION {{[cols |-> sh.cols, rows |-> r] :
                                                  r \in [1..m -> sh.menu]} : sh \in Shapes}
                        others == Listings(k - 1, n - m)
                    IN  {<<f>> \o rest : f \in first, rest \in others} : m \in 0..n}

----------------------------------------------------------------------------
(* generate_dashboard.load_transactions *)

IsSchemaB(src) == "Transaction Date" \in src.cols
IsSchemaA(src) == ~IsSchemaB(src) /\ "Date" \in src.cols /\ "Amount" \in src.cols

Cell(row, col) == IF col \in DOMAIN row THEN row[col] ELSE NA

AllDatesParse(src, col, fmt) ==
    \* pd.to_datetime(col, format=fmt) raises on text that is not in the format;
    \* an empty cell is NaT
    LET DateParses(cell, f) == cell.k \in {f, "blank"}
    IN  \A n \in 1..Len(src.rows) : DateParses(src.rows[n][col], fmt)

\* one row of a Schema A frame after lines 36-37
ConvertA(row) ==
    [Date |-> to_datetime(row["Date"], "mdy"),
     Amount |-> to_numeric(row["Amount"]),
     Description |-> Cell(row, "Description"),
     Category |-> Cell(row, "Category")]

\* a filter that lets zero debits through
DebitNotNegative(r) == ~r.Amount.nan /\ r.Amount.v >= 0

\* df[df['Debit'] > 0]: Amount is the Debit column
DebitPositive(r) == Gt0(r.Amount)

FrameB(src) ==
    \* one row of a Schema B frame after lines 27-31
    LET ConvertB(row) ==
            \* Series.fillna(0)
            LET fillna0(a) == IF a.nan THEN Val(0) ELSE a
            IN  [Date |-> to_datetime(row["Transaction Date"], "ymd"),
                 Amount |-> fillna0(to_numeric(row["Debit"])),
                 Description |-> Cell(row, "Description"),
                 Category |-> Cell(row, "Category")]
    IN  [cols |-> src.cols \cup {"Date", "Amount"},
         rows |-> SelectSeq([n \in 1..Len(src.rows) |-> ConvertB(src.rows[n])], DebitPositive)]

\* a loader that drops the rows whose amount did not parse
HasAmount(r) == ~r.Amount.nan

FrameADropNa(src) ==
    [cols |-> src.cols, rows |-> SelectSeq([n \in 1..Len(src.rows) |-> ConvertA(src.rows[n])], HasAmount)]

FrameA(src) ==
    [cols |-> src.cols, rows |-> [n \in 1..Len(src.rows) |-> ConvertA(src.rows[n])]]

\* pd.concat(all_dfs, ignore_index=True)
RECURSIVE ConcatRows(_)
ConcatRows(frames) ==
    IF frames = <<>> THEN <<>> ELSE Head(frames).rows \o ConcatRows(Tail(frames))

ConcatCols(frames) == UNION {frames[n].cols : n \in 1..Len(frames)}

\* the subset of drop_duplicates
Key(r) == <<r.Date, r.Amount, r.Description>>

\* keep='last' instead of keep='first'
RECURSIVE DropFromEnd(_, _, _)
DropFromEnd(rows, n, seen) ==
    IF n < 1 THEN <<>>
    ELSE IF Key(rows[n]) \in seen THEN DropFromEnd(rows, n - 1, seen)
         ELSE DropFromEnd(rows, n - 1, seen \cup {Key(rows[n])}) \o <<rows[n]>>

drop_duplicates_last(rows) == DropFromEnd(rows, Len(rows), {})

\* df.drop_duplicates(subset=[...], keep='first'); NaN and NaT keys compare equal
drop_duplicates(rows) ==
    LET RECURSIVE DropFrom(_, _)
        DropFrom(n, seen) ==
            IF n > Len(rows) THEN <<>>
            ELSE IF Key(rows[n]) \in seen THEN DropFrom(n + 1, seen)
                 ELSE <<rows[n]>> \o DropFrom(n + 1, seen \cup {Key(rows[n])})
    IN  DropFrom(1, {})

\* Series.dt.year / dt.month are float columns as soon as one date is NaT
HasNaT(rows) == \E n \in 1..Len(rows) : rows[n].Date.nat

YearStr(dt, float) ==
    IF dt.nat THEN NA
    ELSE IF float THEN ToString(dt.y) \o ".0" ELSE ToString(dt.y)

\* .astype(str).str.zfill(2)
MonthStr(dt, float) ==
    IF dt.nat THEN NA
    ELSE IF float THEN ToString(dt.m) \o ".0"
    ELSE IF dt.m < 10 THEN "0" \o ToString(dt.m) ELSE ToString(dt.m)

Derive(rows) ==
    [n \in 1..Len(rows) |->
        [Date |-> rows[n].Date, Amount |-> rows[n].Amount,
         Description |-> rows[n].Description, Category |-> rows[n].Category,
         Year |-> YearStr(rows[n].Date, HasNaT(rows)),
         Month |-> MonthStr(rows[n].Date, HasNaT(rows)),
         YearMonth |-> YearStr(rows[n].Date, HasNaT(rows)) \o "-"
                       \o MonthStr(rows[n].Date, HasNaT(rows))]]

----------------------------------------------------------------------------
(* The subscription catalog of the dashboard page *)

\* one entry of SUBSCRIPTIONS; note is "" where the entry has none
Sub(name, pats, category, amount, cycle, tolerance, note) ==
    [name |-> name, patterns |-> pats, category |-> category, amount |-> amount,
     cycle |-> cycle, tolerance |-> tolerance, note |-> note]

\* const SUBSCRIPTIONS as the source has it
SourceCatalog ==
    << Sub("Netflix", <<"NETFLIX">>, "Streaming", 15490, "monthly", 2000, ""),
       Sub("Spotify", <<"SPOTIFY">>, "Streaming", 10990, "monthly", 2000, ""),
       Sub("Hulu", <<"HULU">>, "Streaming", 7990, "monthly", 2000, ""),
       Sub("iCloud", <<"ICLOUD", "APPLE.COM/BILL">>, "Software", 2990, "monthly", 1000, ""),
       Sub("Google Storage", <<"GOOGLE *CLOUD", "GOOGLE STORAGE">>, "Software", 2990,
           "monthly", 1000, ""),
       Sub("AT&T Wireless", <<"AT&T">>, "Telecom", 85000, "monthly", 10000, ""),
       Sub("State Farm", <<"STATE FARM">>, "Insurance", 55000, "monthly", 5000, ""),
       Sub("Gym Membership", <<"GYM", "FITNESS">>, "Membership", 40000, "monthly", 10000, ""),
       Sub("Audible", <<"AUDIBLE">>, "Membership", 14950, "monthly", 2000, "") >>

\* a result variable before its function has been called
Unset == [set |-> FALSE]

\* a JavaScript null
null == "null"

NoResults ==
    \* the page variables of a run that has not opened the page
    LET NoPage ==
            /\ currentYear = null
            /\ currentMonth = "all"
            /\ currentView = "categories"
            /\ pinnedCategory = null
            /\ expandedTooltip = FALSE
            /\ currentTooltipData = Unset
            /\ tooltip = [visible |-> FALSE, pinned |-> FALSE, link |-> "none"]
            /\ funnel = <<>>
            /\ dog = Unset
    IN  /\ stats = Unset
        /\ business = Unset
        /\ breakdown = Unset
        /\ monthly = Unset
        /\ velocity = Unset
        /\ dow = Unset
        /\ recurring = Unset
        /\ DATA = Unset
        /\ payments = Unset
        /\ subscriptions = Unset
        /\ merchants = Unset
        /\ impulse = Unset
        /\ analysis_df = Unset
        /\ business_df = Unset
        /\ NoPage

InLoop == pc = "loop" /\ i <= Len(sources)

\* a test on the loaded rows instead of the accepted frames
NothingLoaded == ConcatRows(all_dfs) = <<>>

\* `if not all_dfs`
NothingAccepted == all_dfs = <<>>

NoValidFiles == "ValueError: No valid CSV files found in data directory"
BadDate == "ValueError: time data does not match format"

Raise(e) ==
    /\ pc' = "error"
    /\ error' = e
    /\ UNCHANGED <<sources, i, all_dfs, warnings, df, results>>

ReadSchemaB ==
    /\ InLoop
    /\ IsSchemaB(sources[i])
    /\ AllDatesParse(sources[i], "Transaction Date", "ymd")
    /\ {"Debit", "Credit"} \subseteq sources[i].cols
    /\ all_dfs' = Append(all_dfs, FrameB(sources[i]))
    /\ i' = i + 1
    /\ UNCHANGED <<sources, pc, warnings, error, df, results>>

ReadSchemaA ==
    /\ InLoop
    /\ IsSchemaA(sources[i])
    /\ AllDatesParse(sources[i], "Date", "mdy")
    /\ all_dfs' = Append(all_dfs, FrameA(sources[i]))
    /\ i' = i + 1
    /\ UNCHANGED <<sources, pc, warnings, error, df, results>>

SkipUnknown ==
    /\ InLoop
    /\ ~IsSchemaB(sources[i])
    /\ ~IsSchemaA(sources[i])
    /\ warnings' = Append(warnings, i)
    /\ i' = i + 1
    /\ UNCHANGED <<sources, pc, all_dfs, error, df, results>>

\* pd.to_datetime raises ValueError on a date that is not in the format
AbortDateFormat ==
    /\ InLoop
    /\ \/ IsSchemaB(sources[i]) /\ ~AllDatesParse(sources[i], "Transaction Date", "ymd")
       \/ IsSchemaA(sources[i]) /\ ~AllDatesParse(sources[i], "Date", "mdy")
    /\ Raise(BadDate)

\* df['Debit'] / df['Credit'] raise KeyError when the column is absent
AbortMissingColumn ==
    /\ InLoop
    /\ IsSchemaB(sources[i])
    /\ AllDatesParse(sources[i], "Transaction Date", "ymd")
    /\ ~({"Debit", "Credit"} \subseteq sources[i].cols)
    /\ Raise("KeyError")

RaiseNoValidFiles ==
    /\ pc = "loop"
    /\ i > Len(sources)
    /\ NothingAccepted
    /\ Raise(NoValidFiles)

\* drop_duplicates raises KeyError when no accepted frame has a Description
AbortDedupKey ==
    /\ pc = "loop"
    /\ i > Len(sources)
    /\ ~NothingAccepted
    /\ "Description" \notin ConcatCols(all_dfs)
    /\ Raise("KeyError")

ConcatAndDedup ==
    /\ pc = "loop"
    /\ i > Len(sources)
    /\ ~NothingAccepted
    /\ "Description" \in ConcatCols(all_dfs)
    /\ df' = [cols |-> ConcatCols(all_dfs) \cup {"Year", "Month", "YearMonth"},
              rows |-> Derive(drop_duplicates(ConcatRows(all_dfs)))]
    /\ pc' = "done"
    /\ UNCHANGED <<sources, i, all_dfs, warnings, error, results>>

----------------------------------------------------------------------------
(* analysis.load_transactions and generate_business_dashboard.load_transactions *)

\* the loop of analysis.load_transactions over every CSV file: df['Date'] and
\* df['Amount'] raise KeyError when the column is absent, to_datetime raises
\* on a date that is not in the format; each row gets the file as its Source,
\* and the concatenation is returned as it is
analysis_load_transactions(srcs) ==
    LET Fault(src) ==
            IF "Date" \notin src.cols THEN "KeyError: 'Date'"
            ELSE IF ~AllDatesParse(src, "Date", "mdy") THEN BadDate
            ELSE IF "Amount" \notin src.cols THEN "KeyError: 'Amount'"
            ELSE "none"
        bad == {n \in 1..Len(srcs) : Fault(srcs[n]) # "none"}
        all_data ==
            [n \in 1..Len(srcs) |->
                [cols |-> srcs[n].cols \cup {"Source"},
                 rows |-> [m \in 1..Len(srcs[n].rows) |->
                              ConvertA(srcs[n].rows[m]) @@ [Source |-> n]]]]
    IN  IF bad # {}
        THEN [set |-> TRUE, rows |-> <<>>,
              raised |-> Fault(srcs[CHOOSE n \in bad : \A m \in bad : n <= m])]
        ELSE IF srcs = <<>>
        THEN [set |-> TRUE, rows |-> <<>>,
              raised |-> "FileNotFoundError: No CSV files found in data directory"]
        ELSE [set |-> TRUE, raised |-> "none", rows |-> ConcatRows(all_data)]

AnalysisLoadTransactions ==
    /\ analysis_df' = analysis_load_transactions(sources)
    /\ UNCHANGED <<loader, df, stats, business, breakdown, monthly, velocity, dow, recurring,
                   SUBSCRIPTIONS, DATA, payments, subscriptions, merchants, impulse, page,
                   business_df>>

\* the loop of the business dashboard's load_transactions: Amount is read
\* before Date; the concatenation gets the Year, Month and YearMonth columns
business_load_transactions(srcs) ==
    LET Fault(src) ==
            IF "Amount" \notin src.cols THEN "KeyError: 'Amount'"
            ELSE IF "Date" \notin src.cols THEN "KeyError: 'Date'"
            ELSE IF ~AllDatesParse(src, "Date", "mdy") THEN BadDate
            ELSE "none"
        bad == {n \in 1..Len(srcs) : Fault(srcs[n]) # "none"}
    IN  IF bad # {}
        THEN [set |-> TRUE, rows |-> <<>>,
              raised |-> Fault(srcs[CHOOSE n \in bad : \A m \in bad : n <= m])]
        ELSE IF srcs = <<>>
        THEN [set |-> TRUE, rows |-> <<>>, raised |-> NoValidFiles]
        ELSE [set |-> TRUE, raised |-> "none",
              rows |-> Derive(ConcatRows([n \in 1..Len(srcs) |-> FrameA(srcs[n])]))]

BusinessLoadTransactions ==
    /\ business_df' = business_load_transactions(sources)
    /\ UNCHANGED <<loader, df, stats, business, breakdown, monthly, velocity, dow, recurring,
                   SUBSCRIPTIONS, DATA, payments, subscriptions, merchants, impulse, page,
                   analysis_df>>

----------------------------------------------------------------------------

Init ==
    /\ sources \in Listings(MaxSources, MaxRows)
    /\ pc = "loop"
    /\ i = 1
    /\ all_dfs = <<>>
    /\ warnings = <<>>
    /\ error = "none"
    /\ df = [cols |-> {}, rows |-> <<>>]
    /\ SUBSCRIPTIONS = SourceCatalog
    /\ NoResults

Next ==
    \/ ReadSchemaB
    \/ ReadSchemaA
    \/ SkipUnknown
    \/ AbortDateFormat
    \/ AbortMissingColumn
    \/ RaiseNoValidFiles
    \/ AbortDedupKey
    \/ ConcatAndDedup

Spec == Init /\ [][Next]_vars

\* the three loaders over one data directory
NextLoaders ==
    \/ Next
    \/ AnalysisLoadTransactions
    \/ BusinessLoadTransactions

SpecLoaders == Init /\ [][NextLoaders]_vars

----------------------------------------------------------------------------
(* Arithmetic the analytics use *)

Abs(x) == IF x < 0 THEN -x ELSE x

RECURSIVE GCD(_, _)
GCD(a, b) == IF b = 0 THEN a ELSE GCD(b, a % b)

\* the fraction n / d in lowest terms with a positive denominator, d # 0
Rat(n, d) ==
    LET g == GCD(Abs(n), Abs(d))
        sgn == IF d < 0 THEN -1 ELSE 1
    IN  [k |-> "num", n |-> (sgn * n) \div g, d |-> (sgn * d) \div g]

\* float division: x / 0 is inf, -inf or NaN
RatNaN == [k |-> "nan", n |-> 0, d |-> 1]

Quot(n, d) ==
    IF d # 0 THEN Rat(n, d)
    ELSE IF n = 0 THEN RatNaN
    ELSE IF n > 0 THEN [k |-> "inf", n |-> 1, d |-> 0]
    ELSE [k |-> "-inf", n |-> -1, d |-> 0]

\* the multiple of step nearest to n / d (d > 0), a tie going to the even one
RoundHalfEven(n, d, step) ==
    LET q == n \div (d * step)
        r == n - q * d * step
    IN  IF 2 * r < d * step THEN q * step
        ELSE IF 2 * r > d * step THEN (q + 1) * step
        ELSE IF q % 2 = 0 THEN q * step ELSE (q + 1) * step

\* round(x, 2) of an amount in thousandths of a dollar
Round2(x) == RoundHalfEven(x, 1, 10)

\* Series.sum(): NaN is skipped, the empty sum is 0
RECURSIVE SumAmount(_)
SumAmount(rows) ==
    IF rows = <<>> THEN 0
    ELSE (IF Head(rows).Amount.nan THEN 0 ELSE Head(rows).Amount.v) + SumAmount(Tail(rows))

\* Series.count(): the values that are not NaN
CountAmount(rows) == Cardinality({n \in 1..Len(rows) : ~rows[n].Amount.nan})

\* a sequence of integers in ascending order
RECURSIVE SortInts(_)
SortInts(s) ==
    LET RECURSIVE InsertSorted(_, _)
        InsertSorted(x, t) ==
            IF t = <<>> THEN <<x>>
            ELSE IF x <= Head(t) THEN <<x>> \o t
                 ELSE <<Head(t)>> \o InsertSorted(x, Tail(t))
    IN  IF s = <<>> THEN <<>> ELSE InsertSorted(Head(s), SortInts(Tail(s)))

Range(s) == {s[n] : n \in 1..Len(s)}

\* the members of a set of integers in ascending order
RECURSIVE SortSet(_)
SortSet(S) ==
    IF S = {} THEN <<>>
    ELSE LET least == CHOOSE a \in S : \A b \in S : a <= b
         IN  <<least>> \o SortSet(S \ {least})

\* days since 1970-01-01 of a civil date
Ordinal(dt) ==
    LET yy == IF dt.m <= 2 THEN dt.y - 1 ELSE dt.y
        era == yy \div 400
        yoe == yy - era * 400
        mp == IF dt.m > 2 THEN dt.m - 3 ELSE dt.m + 9
        doy == (153 * mp + 2) \div 5 + dt.d - 1
        doe == yoe * 365 + yoe \div 4 - yoe \div 100 + doy
    IN  era * 146097 + doe - 719468

----------------------------------------------------------------------------
(* analysis.get_summary_stats *)

IsPurchase(r) == Gt0(r.Amount)
Dates(rows) == {rows[n].Date : n \in {m \in 1..Len(rows) : ~rows[m].Date.nat}}

\* Series.min() / Series.max() of the Date column: NaT is skipped
MinDate(rows) ==
    IF Dates(rows) = {} THEN NaT
    ELSE CHOOSE a \in Dates(rows) : \A b \in Dates(rows) : Ordinal(a) <= Ordinal(b)

MaxDate(rows) ==
    IF Dates(rows) = {} THEN NaT
    ELSE CHOOSE a \in Dates(rows) : \A b \in Dates(rows) : Ordinal(a) >= Ordinal(b)

\* a net figure taken from the purchases alone
NetOfPurchases(rows) == SumAmount(SelectSeq(rows, IsPurchase))

\* df['Amount'].sum()
NetSpent(rows) == SumAmount(rows)

\* the span with both endpoint days counted
DaysInclusive(rows) ==
    IF Dates(rows) = {} THEN NaN
    ELSE Val(Ordinal(MaxDate(rows)) - Ordinal(MinDate(rows)) + 1)

\* (df['Date'].max() - df['Date'].min()).days; NaT - NaT has no days
DaysCovered(rows) ==
    IF Dates(rows) = {} THEN NaN
    ELSE Val(Ordinal(MaxDate(rows)) - Ordinal(MinDate(rows)))

get_summary_stats(rows) ==
    \* Series.median() of the amounts of a non-empty selection without NaN
    LET MedianAmount(sel) ==
            LET a == SortInts([n \in 1..Len(sel) |-> sel[n].Amount.v])
                h == Len(a) \div 2
            IN  IF Len(a) % 2 = 1 THEN Rat(a[h + 1], 1) ELSE Rat(a[h] + a[h + 1], 2)
    IN  \* Series.mean() of the amounts of a non-empty selection
        LET MeanAmount(sel) == Quot(SumAmount(sel), CountAmount(sel))
        IN  LET IsRefund(r) == Lt0(r.Amount)
            IN  LET purchases == SelectSeq(rows, IsPurchase)
                    refunds == SelectSeq(rows, IsRefund)
                IN  [set |-> TRUE,
                     gross_spent |-> SumAmount(purchases),
                     refunds |-> SumAmount(refunds),
                     net_spent |-> NetSpent(rows),
                     purchase_count |-> Len(purchases),
                     refund_count |-> Len(refunds),
                     transaction_count |-> Len(rows),
                     avg_transaction |->
                         IF Len(purchases) > 0 THEN MeanAmount(purchases) ELSE Rat(0, 1),
                     median_transaction |->
                         IF Len(purchases) > 0 THEN MedianAmount(purchases) ELSE Rat(0, 1),
                     date_range |-> <<MinDate(rows), MaxDate(rows)>>,
                     days_covered |-> DaysCovered(rows)]

GetSummaryStats ==
    /\ pc = "done"
    /\ stats' = get_summary_stats(df.rows)
    /\ UNCHANGED <<loader, df, business, breakdown, monthly, views>>

----------------------------------------------------------------------------
(* generate_business_dashboard.categorize_business_expense and             *)
(* process_business_data                                                   *)

\* the upper-case letter of each lower-case one
UpperCase ==
    LET lower == "abcdefghijklmnopqrstuvwxyz"
        upper == "ABCDEFGHIJKLMNOPQRSTUVWXYZ"
    IN  [c \in {SubSeq(lower, n, n) : n \in 1..Len(lower)} |->
            LET n == CHOOSE n \in 1..Len(lower) : SubSeq(lower, n, n) = c
            IN  SubSeq(upper, n, n)]

\* str.upper(): a lower-case letter becomes its upper-case one
str_upper(str) ==
    LET UpperChar(c) == IF c \in DOMAIN UpperCase THEN UpperCase[c] ELSE c
        RECURSIVE UpperFrom(_)
        UpperFrom(n) ==
            IF n > Len(str) THEN "" ELSE UpperChar(SubSeq(str, n, n)) \o UpperFrom(n + 1)
    IN  UpperFrom(1)

\* `keyword in text`
Contains(text, keyword) ==
    \E n \in 1..(Len(text) - Len(keyword) + 1) :
        SubSeq(text, n, n + Len(keyword) - 1) = keyword

patterns ==
    << [keywords |-> <<"EXAMPLE HOSTING">>, service |-> "Hosting Provider",
        category |-> "Infrastructure"],
       [keywords |-> <<"EXAMPLE API">>, service |-> "API Service",
        category |-> "Infrastructure"],
       [keywords |-> <<"EXAMPLE DOMAIN">>, service |-> "Domain Registrar",
        category |-> "Infrastructure"],
       [keywords |-> <<"EXAMPLE DESIGN">>, service |-> "Design Tool",
        category |-> "Art/Assets"] >>

\* the first pattern with a keyword in the upper-cased description, or
\* (None, None)
categorize_business_expense(description) ==
    LET desc_upper == str_upper(description)
        RowMatches(p) == \E n \in 1..Len(p.keywords) : Contains(desc_upper, p.keywords[n])
        hits == {n \in 1..Len(patterns) : RowMatches(patterns[n])}
    IN  IF hits = {} THEN [service |-> "", category |-> ""]
        ELSE LET first == CHOOSE n \in hits : \A m \in hits : n <= m
             IN  [service |-> patterns[first].service,
                  category |-> patterns[first].category]

\* Timestamp.strftime('%m/%d/%Y')
Strftime(dt) ==
    LET Pad2(n) == IF n < 10 THEN "0" \o ToString(n) ELSE ToString(n)
    IN  Pad2(dt.m) \o "/" \o Pad2(dt.d) \o "/" \o ToString(dt.y)

IsBusiness(r) == categorize_business_expense(r.Description).service # ""

\* past `if row['Amount'] <= 0: continue`: a comparison with NaN is False
ListedAsPurchase(r) == ~(~r.Amount.nan /\ r.Amount.v <= 0) /\ IsBusiness(r)

\* past `if row['Amount'] >= 0: continue`
ListedAsRefund(r) == ~(~r.Amount.nan /\ r.Amount.v >= 0) /\ IsBusiness(r)

Entries(rows) ==
    \* round(amount, 2); NaN stays NaN
    LET RoundAmount(a) == IF a.nan THEN NaN ELSE Val(Round2(a.v))
    IN  [n \in 1..Len(rows) |->
            [date |-> Strftime(rows[n].Date),
             yearMonth |-> rows[n].YearMonth,
             amount |-> RoundAmount(rows[n].Amount),
             description |-> rows[n].Description,
             service |-> categorize_business_expense(rows[n].Description).service,
             category |-> categorize_business_expense(rows[n].Description).category]]

\* sorted(df['Year'].unique().tolist()): the year strings in string order,
\* which for four-digit years is the order of the years, "nan" last
SortedYears(rows) ==
    LET YearKey(r) == IF r.Date.nat THEN 10000 ELSE r.Date.y
        ks == SortSet({YearKey(rows[n]) : n \in 1..Len(rows)})
    IN  [k \in 1..Len(ks) |-> (CHOOSE r \in Range(rows) : YearKey(r) = ks[k]).Year]

process_business_data(rows) ==
    LET listed == SelectSeq(rows, ListedAsPurchase)
        refunded == SelectSeq(rows, ListedAsRefund)
    IN  IF \E n \in 1..Len(rows) :
               (ListedAsPurchase(rows[n]) \/ ListedAsRefund(rows[n])) /\ rows[n].Date.nat
        THEN [set |-> TRUE, raised |-> TRUE, transactions |-> <<>>,
              refunds |-> <<>>, years |-> <<>>]
        ELSE [set |-> TRUE, raised |-> FALSE, transactions |-> Entries(listed),
              refunds |-> Entries(refunded), years |-> SortedYears(rows)]

ProcessBusinessData ==
    /\ pc = "done"
    /\ business' = process_business_data(df.rows)
    /\ UNCHANGED <<loader, df, stats, breakdown, monthly, views>>

----------------------------------------------------------------------------
(* analysis.category_breakdown *)

\* the strings the frames use as group keys, in string order
Collation ==
    << "AMAZON", "Art", "Business", "Dining", "EXAMPLE API refund", "Entertainment",
       "Example Design Co", "Example Hosting Inc", "Fuel", "Groceries", "Health",
       "NETFLIX.COM", "Netflix.com", "PAYMENT", "Payment", "Shopping", "Streaming" >>

\* the keys of df.groupby(col): the values present, NaN left out, sorted
GroupKeys(rows, col) ==
    LET StrIndex(str) == CHOOSE n \in 1..Len(Collation) : Collation[n] = str
        present == {StrIndex(rows[n][col]) : n \in {m \in 1..Len(rows) : rows[m][col] # NA}}
        order == SortSet(present)
    IN  [k \in 1..Len(order) |-> Collation[order[k]]]

InCategory(rows, cat) ==
    LET Same(r) == r.Category = cat
    IN  SelectSeq(rows, Same)

\* .agg(['sum', 'count', 'mean']).round(2) of one group
Aggregate(rows) ==
    [Total |-> Round2(SumAmount(rows)),
     Count |-> CountAmount(rows),
     Average |->
        IF CountAmount(rows) = 0 THEN NaN
        ELSE Val(RoundHalfEven(SumAmount(rows), CountAmount(rows), 10))]

\* a denominator that takes in the categories with a negative total
RECURSIVE TotalAll(_)
TotalAll(groups) ==
    IF groups = <<>> THEN 0 ELSE Head(groups).Total + TotalAll(Tail(groups))

\* breakdown[breakdown['Total'] > 0]['Total'].sum()
RECURSIVE TotalPositive(_)
TotalPositive(groups) ==
    IF groups = <<>> THEN 0
    ELSE (IF Head(groups).Total > 0 THEN Head(groups).Total ELSE 0)
         + TotalPositive(Tail(groups))

\* (Total / total_positive * 100).round(1), in tenths of a percent
Percent(total, total_positive) ==
    IF total_positive # 0
    THEN [k |-> "num", v |-> RoundHalfEven(total * 1000, total_positive, 1)]
    ELSE [k |-> Quot(total, 0).k, v |-> 0]

\* sort_values('Total', ascending=False); equal totals keep the group order
RECURSIVE SortByTotal(_)
SortByTotal(groups) ==
    LET RECURSIVE InsertByTotal(_, _)
        InsertByTotal(g, s) ==
            IF s = <<>> THEN <<g>>
            ELSE IF g.Total >= Head(s).Total THEN <<g>> \o s
                 ELSE <<Head(s)>> \o InsertByTotal(g, Tail(s))
    IN  IF groups = <<>> THEN <<>>
        ELSE InsertByTotal(Head(groups), SortByTotal(Tail(groups)))

category_breakdown(rows, purchases_only) ==
    LET d == IF purchases_only THEN SelectSeq(rows, IsPurchase) ELSE rows
        keys == GroupKeys(d, "Category")
        groups == [k \in 1..Len(keys) |->
                     [Category |-> keys[k]] @@ Aggregate(InCategory(d, keys[k]))]
        total_positive == TotalPositive(groups)
    IN  SortByTotal([k \in 1..Len(groups) |->
                        groups[k] @@
                        [Percent |-> Percent(groups[k].Total, total_positive)]])

CategoryBreakdown ==
    /\ pc = "done"
    /\ \E purchases_only \in BOOLEAN :
          breakdown' = [set |-> TRUE, purchases_only |-> purchases_only,
                        rows |-> category_breakdown(df.rows, purchases_only)]
    /\ UNCHANGED <<loader, df, stats, business, monthly, views>>

----------------------------------------------------------------------------
(* analysis.monthly_totals *)

\* df['Date'].dt.to_period('M'), as months since year 0; NaT has no period
MonthIndex(dt) == dt.y * 12 + (dt.m - 1)

InMonth(rows, mi) ==
    LET Same(r) == ~r.Date.nat /\ MonthIndex(r.Date) = mi
    IN  SelectSeq(rows, Same)

\* the change taken against the current total instead of the previous one
PctOfCurrent(prev, cur) == Quot((cur - prev) * 100, cur)

\* Series.pct_change() * 100: (cur / prev - 1) * 100
PctChange(prev, cur) ==
    LET q == Quot(cur, prev)
    IN  IF q.k # "num" THEN q ELSE Rat((q.n - q.d) * 100, q.d)

monthly_totals(rows, purchases_only) ==
    LET d == IF purchases_only THEN SelectSeq(rows, IsPurchase) ELSE rows
        keys == SortSet({MonthIndex(d[n].Date) : n \in {m \in 1..Len(d) : ~d[m].Date.nat}})
        groups == [k \in 1..Len(keys) |->
                     [Month |-> <<keys[k] \div 12, (keys[k] % 12) + 1>>]
                     @@ Aggregate(InMonth(d, keys[k]))]
    IN  [k \in 1..Len(groups) |->
            groups[k] @@
            [Change |-> IF k = 1 THEN NaN
                        ELSE Val(groups[k].Total - groups[k - 1].Total),
             Change_Pct |-> IF k = 1 THEN RatNaN
                            ELSE PctChange(groups[k - 1].Total, groups[k].Total)]]

MonthlyTotals ==
    /\ pc = "done"
    /\ \E purchases_only \in BOOLEAN :
          monthly' = [set |-> TRUE, purchases_only |-> purchases_only,
                      rows |-> monthly_totals(df.rows, purchases_only)]
    /\ UNCHANGED <<loader, df, stats, business, breakdown, views>>

----------------------------------------------------------------------------
(* analysis.spending_velocity *)

\* x * f for a factor f given in hundredths
Times(x, hundredths) ==
    IF x.k # "num" THEN x ELSE Rat(x.n * hundredths, x.d * 100)

\* stats['total_spent'] is looked up in the dict get_summary_stats returned;
\* max(stats['days_covered'], 1) keeps a NaN first argument
spending_velocity(rows) ==
    LET st == get_summary_stats(rows)
        days == IF st.days_covered.nan THEN NaN
                ELSE Val(IF 1 > st.days_covered.v THEN 1 ELSE st.days_covered.v)
    IN  IF "total_spent" \notin DOMAIN st
        THEN [set |-> TRUE, raised |-> "KeyError: 'total_spent'"]
        ELSE LET daily == IF days.nan THEN RatNaN ELSE Quot(st.total_spent, days.v)
             IN  [set |-> TRUE, raised |-> "none",
                  daily_average |-> daily,
                  weekly_average |-> Times(daily, 700),
                  monthly_projection |-> Times(daily, 3044),
                  annual_projection |-> Times(daily, 36500)]

SpendingVelocity ==
    /\ pc = "done"
    /\ velocity' = spending_velocity(df.rows)
    /\ UNCHANGED <<loader, df, stats, business, breakdown, monthly,
                   dow, recurring, SUBSCRIPTIONS, DATA, payments, subscriptions, later>>

----------------------------------------------------------------------------
(* analysis.day_of_week_analysis *)

\* the groups in the order asked for, a day without a group left out
KeepGroups(groups, order) ==
    LET Present(name) == name \in DOMAIN groups
        kept == SelectSeq(order, Present)
    IN  [k \in 1..Len(kept) |-> [DayOfWeek |-> kept[k]] @@ groups[kept[k]]]

\* DataFrame.reindex(order): a label without a row gets a row of NaN
Reindex(groups, order) ==
    [k \in 1..Len(order) |->
        [DayOfWeek |-> order[k]] @@
        (IF order[k] \in DOMAIN groups THEN groups[order[k]]
         ELSE [Total |-> NaN, Count |-> NaN, Average |-> NaN])]

\* Series.dt.day_name() (1970-01-01 was a Thursday), then
\* groupby('DayOfWeek')['Amount'].agg(['sum', 'count', 'mean']).round(2): one
\* group for each day name present, rows without a date in none
day_of_week_analysis(rows) ==
    LET day_order ==
            <<"Monday", "Tuesday", "Wednesday", "Thursday", "Friday", "Saturday", "Sunday">>
        day_name(dt) == day_order[((Ordinal(dt) + 3) % 7) + 1]
        OnDay(name) ==
            LET Same(r) == ~r.Date.nat /\ day_name(r.Date) = name
            IN  SelectSeq(rows, Same)
        present == {day_name(rows[n].Date) : n \in {m \in 1..Len(rows) : ~rows[m].Date.nat}}
        groups == [name \in present |->
                     LET a == Aggregate(OnDay(name))
                     IN  [Total |-> Val(a.Total), Count |-> Val(a.Count),
                          Average |-> a.Average]]
    IN  Reindex(groups, day_order)

\* the analysis without its df.copy(): the DayOfWeek column lands in the frame
DayOfWeekInPlace ==
    /\ pc = "done"
    /\ dow' = [set |-> TRUE, rows |-> day_of_week_analysis(df.rows)]
    /\ df' = [df EXCEPT !.cols = @ \cup {"DayOfWeek"}]
    /\ UNCHANGED <<loader, stats, business, breakdown, monthly,
                   velocity, recurring, SUBSCRIPTIONS, DATA, payments, subscriptions, later>>

DayOfWeekAnalysis ==
    /\ pc = "done"
    /\ dow' = [set |-> TRUE, rows |-> day_of_week_analysis(df.rows)]
    /\ UNCHANGED <<loader, df, stats, business, breakdown, monthly,
                   velocity, recurring, SUBSCRIPTIONS, DATA, payments, subscriptions, later>>

----------------------------------------------------------------------------
(* analysis.find_recurring_charges *)

MaxThreshold == 3   \* threshold_months is taken from 1..MaxThreshold

\* the amounts of a merchant's dated charges, one figure for each charge
ChargeAmounts(rows, desc) ==
    LET Counted(r) == r.Description = desc /\ ~r.Date.nat
        d == SelectSeq(rows, Counted)
    IN  [k \in 1..Len(d) |-> IF d[k].Amount.nan THEN 0 ELSE d[k].Amount.v]

\* df.groupby(['Description', 'Month'])['Amount'].sum() for one merchant: one
\* figure for each month the merchant has a row in, in month order; a row
\* without a date is in no group
MonthlySums(rows, desc) ==
    LET OfMerchant(r) == r.Description = desc
        d == SelectSeq(rows, OfMerchant)
        keys == SortSet({MonthIndex(d[n].Date) : n \in {m \in 1..Len(d) : ~d[m].Date.nat}})
    IN  [k \in 1..Len(keys) |-> SumAmount(InMonth(d, keys[k]))]

RECURSIVE SumSeq(_)
SumSeq(a) == IF a = <<>> THEN 0 ELSE Head(a) + SumSeq(Tail(a))

\* n * sum(x^2) - sum(x)^2, which is n * (n - 1) times the sample variance
Spread(a) ==
    Len(a) * SumSeq([k \in 1..Len(a) |-> a[k] * a[k]]) - SumSeq(a) * SumSeq(a)

\* a / b < c / d for a, c >= 0 and b, d > 0, by whole parts and remainders,
\* so that no product is formed
RECURSIVE LessFraction(_, _, _, _)
LessFraction(a, b, c, d) ==
    IF a \div b # c \div d THEN a \div b < c \div d
    ELSE IF c % d = 0 THEN FALSE
    ELSE IF a % b = 0 THEN TRUE
    ELSE LessFraction(d, c % d, b, a % b)

\* a threshold the merchant has to exceed
MoreMonths(months, threshold_months) == months > threshold_months

\* merchant_frequency['Months_Present'] >= threshold_months
EnoughMonths(months, threshold_months) == months >= threshold_months

\* merchant_frequency has a row for each merchant with a dated row; the
\* rows kept are sorted by sort_values('Avg_Amount', ascending=False) on the
\* unrounded means and then rounded
find_recurring_charges(rows, threshold_months) ==
    \* Series.std() (ddof = 1) of the figures, rounded to cents and given in
    \* thousandths of a dollar; NaN for fewer than two figures.  The figures are
    \* whole cents; the deviation is the multiple of one cent nearest to the
    \* square root of Spread / (n * (n - 1)), and is at most the distance of the
    \* least figure from the greatest
    LET StdRounded(a) ==
            IF Len(a) < 2 THEN NaN
            ELSE LET c == [k \in 1..Len(a) |-> a[k] \div 10]
                     sorted == SortInts(c)
                     q == Len(a) * (Len(a) - 1)
                     RECURSIVE RootBetween(_, _)
                     RootBetween(lo, hi) ==
                         IF lo = hi THEN lo
                         ELSE LET mid == (lo + hi + 1) \div 2
                              IN  IF ~LessFraction(Spread(c), q, (2 * mid - 1) * (2 * mid - 1), 4)
                                  THEN RootBetween(mid, hi)
                                  ELSE RootBetween(lo, mid - 1)
                 IN  Val(10 * RootBetween(0, sorted[Len(sorted)] - sorted[1]))
    IN  \* Std_Amount.fillna(0) < Avg_Amount * 0.2.  Both sides scale with the unit
        \* of the figures, so the squares are taken of the figures over their common
        \* divisor: std < mean / 5 iff mean > 0 and Spread / sum^2 < (n - 1) / (25 * n)
        LET StdBelowFifth(a) ==
                LET RECURSIVE GCDSeq(_)
                    GCDSeq(b) == IF b = <<>> THEN 0 ELSE GCD(Abs(Head(b)), GCDSeq(Tail(b)))
                    u == [k \in 1..Len(a) |-> a[k] \div GCDSeq(a)]
                IN  /\ SumSeq(a) > 0
                    /\ Len(a) >= 2 =>
                          LessFraction(Spread(u), SumSeq(u) * SumSeq(u), Len(a) - 1, 25 * Len(a))
        IN  LET Dated(r) == ~r.Date.nat
                keys == GroupKeys(SelectSeq(rows, Dated), "Description")
                merchant_frequency ==
                    [k \in 1..Len(keys) |->
                        LET a == MonthlySums(rows, keys[k])
                        IN  [Description |-> keys[k],
                             Months_Present |-> Len(a),
                             Mean |-> Quot(SumSeq(a), Len(a)),
                             Avg_Amount |-> Val(RoundHalfEven(SumSeq(a), Len(a), 10)),
                             Std_Amount |-> StdRounded(a),
                             consistent |-> StdBelowFifth(a)]]
                Recurs(f) == EnoughMonths(f.Months_Present, threshold_months) /\ f.consistent
                RECURSIVE InsertByMean(_, _)
                InsertByMean(g, s) ==
                    IF s = <<>> THEN <<g>>
                    ELSE IF g.Mean.n * Head(s).Mean.d >= Head(s).Mean.n * g.Mean.d THEN <<g>> \o s
                         ELSE <<Head(s)>> \o InsertByMean(g, Tail(s))
                RECURSIVE SortByMean(_)
                SortByMean(groups) ==
                    IF groups = <<>> THEN <<>>
                    ELSE InsertByMean(Head(groups), SortByMean(Tail(groups)))
                sorted == SortByMean(SelectSeq(merchant_frequency, Recurs))
            IN  [k \in 1..Len(sorted) |->
                    [Description |-> sorted[k].Description,
                     Months_Present |-> sorted[k].Months_Present,
                     Avg_Amount |-> sorted[k].Avg_Amount,
                     Std_Amount |-> sorted[k].Std_Amount]]

FindRecurringCharges ==
    /\ pc = "done"
    /\ \E threshold_months \in 1..MaxThreshold :
          recurring' = [set |-> TRUE, threshold_months |-> threshold_months,
                        rows |-> find_recurring_charges(df.rows, threshold_months)]
    /\ UNCHANGED <<loader, df, stats, business, breakdown, monthly,
                   velocity, dow, SUBSCRIPTIONS, DATA, payments, subscriptions, later>>

----------------------------------------------------------------------------
(* analysis.detect_impulse_spending *)

\* groupby(['DateOnly', 'Category']).size() has a group for each date and
\* category met in a row with both (a row without a date or a category is in
\* no group); len(daily_counts[daily_counts >= 3]) counts the groups.  A
\* comparison with NaN is False, so small_trans holds no NaN amount; the
\* total is the 20 dollars of the source in thousandths
detect_impulse_spending(rows) ==
    LET Grouped(r) == ~r.Date.nat /\ r.Category # NA
        daily_counts ==
            [g \in {<<r.Date, r.Category>> : r \in {q \in Range(rows) : Grouped(q)}} |->
                Cardinality({n \in 1..Len(rows) :
                    Grouped(rows[n]) /\ <<rows[n].Date, rows[n].Category>> = g})]
        high_frequency_days == {g \in DOMAIN daily_counts : daily_counts[g] >= 3}
        Small(r) == ~r.Amount.nan /\ r.Amount.v < 20000
        small_trans == SelectSeq(rows, Small)
    IN  [set |-> TRUE,
         high_frequency_days |-> Cardinality(high_frequency_days),
         small_transactions_total |-> SumAmount(small_trans),
         small_transactions_percent |-> Quot(SumAmount(small_trans) * 100, SumAmount(rows)),
         small_transaction_count |-> Len(small_trans)]

DetectImpulseSpending ==
    /\ pc = "done"
    /\ impulse' = detect_impulse_spending(df.rows)
    /\ UNCHANGED <<loader, df, stats, business, breakdown, monthly, velocity, dow, recurring,
                   SUBSCRIPTIONS, DATA, payments, subscriptions, merchants, page,
                   analysis_df, business_df>>

----------------------------------------------------------------------------
(* analysis.top_merchants *)

\* groupby('Description')['Amount'].agg(['sum', 'count', 'mean']).round(2) with
\* the columns renamed, sort_values('Total', ascending=False), head(n)
top_merchants(rows, n) ==
    LET keys == GroupKeys(rows, "Description")
        groups ==
            [k \in 1..Len(keys) |->
                LET Of(r) == r.Description = keys[k]
                    a == Aggregate(SelectSeq(rows, Of))
                IN  [Description |-> keys[k], Total |-> a.Total,
                     Transactions |-> a.Count, Average |-> a.Average]]
        sorted == SortByTotal(groups)
    IN  SubSeq(sorted, 1, IF n < Len(sorted) THEN n ELSE Len(sorted))

TopMerchants ==
    /\ pc = "done"
    /\ \E n \in {1, 10} :
          merchants' = [set |-> TRUE, n |-> n, rows |-> top_merchants(df.rows, n)]
    /\ UNCHANGED <<loader, df, stats, business, breakdown, monthly, velocity, dow, recurring,
                   SUBSCRIPTIONS, DATA, payments, subscriptions, impulse, page,
                   analysis_df, business_df>>

----------------------------------------------------------------------------
(* generate_dashboard.process_data *)

\* Series.unique(): the values in order of first appearance
unique(a) ==
    LET RECURSIVE UniqueFrom(_, _)
        UniqueFrom(b, seen) ==
            IF b = <<>> THEN <<>>
            ELSE IF Head(b) \in seen THEN UniqueFrom(Tail(b), seen)
                 ELSE <<Head(b)>> \o UniqueFrom(Tail(b), seen \cup {Head(b)})
    IN  UniqueFrom(a, {})

\* a missing category is a float NaN among the strings of unique(): sorted()
\* raises on comparing the two, and a list of NaN alone is returned as it is.
\* cat_data has an entry for each category with a row in the month (no row
\* equals NaN); its transactions are to_dict('records') of Date, Amount,
\* Description with the date written as strftime('%m/%d/%Y'), which raises for
\* NaT, and the amount rounded to cents
process_data(rows) ==
    LET spending == SelectSeq(rows, IsPurchase)
        labels == {spending[n].Category : n \in 1..Len(spending)}
        categories == IF NA \in labels THEN <<NA>> ELSE GroupKeys(spending, "Category")
        yms == unique([n \in 1..Len(spending) |-> spending[n].YearMonth])
        TxnRecord(r) ==
            [Date |-> Strftime(r.Date), Amount |-> Round2(r.Amount.v),
             Description |-> r.Description]
        CatData(month_data) ==
            LET HasRows(cat) == cat # NA /\ InCategory(month_data, cat) # <<>>
                present == SelectSeq(categories, HasRows)
            IN  [k \in 1..Len(present) |->
                    LET cat_transactions == InCategory(month_data, present[k])
                    IN  [category |-> present[k],
                         total |-> Round2(SumAmount(cat_transactions)),
                         count |-> Len(cat_transactions),
                         transactions |->
                             [n \in 1..Len(cat_transactions) |->
                                 TxnRecord(cat_transactions[n])]]]
    IN  IF NA \in labels /\ labels # {NA}
        THEN [set |-> TRUE, raised |-> "TypeError: '<' not supported between instances of 'str' and 'float'"]
        ELSE IF HasNaT(spending)
        THEN [set |-> TRUE, raised |-> "ValueError: NaTType does not support strftime"]
        ELSE [set |-> TRUE, raised |-> "none",
              years |-> SortedYears(spending),
              categories |-> categories,
              byMonth |->
                  [k \in 1..Len(yms) |->
                      LET InYm(r) == r.YearMonth = yms[k]
                          month_data == SelectSeq(spending, InYm)
                      IN  [ym |-> yms[k],
                           total |-> Round2(SumAmount(month_data)),
                           categories |-> CatData(month_data)]]]

ProcessData ==
    /\ pc = "done"
    /\ DATA' = process_data(df.rows)
    /\ UNCHANGED <<loader, df, stats, business, breakdown, monthly,
                   velocity, dow, recurring, SUBSCRIPTIONS, payments, subscriptions, later>>

----------------------------------------------------------------------------
(* The dashboard page: getRecurringPayments and getSubscriptions *)

\* allTransactions: the transactions of every month and category of
\* DATA.byMonth, each with its category
AllTransactions(data) ==
    LET RECURSIVE Flatten(_)
        Flatten(lists) ==
            IF lists = <<>> THEN <<>> ELSE Head(lists) \o Flatten(Tail(lists))
    IN  Flatten([k \in 1..Len(data.byMonth) |->
            Flatten([c \in 1..Len(data.byMonth[k].categories) |->
                LET cat == data.byMonth[k].categories[c]
                IN  [n \in 1..Len(cat.transactions) |->
                        cat.transactions[n] @@ [category |-> cat.category]]])])

\* new Date('mm/dd/yyyy'), as the number of its day
DateOf(str) ==
    LET Digit(c) == CHOOSE d \in 0..9 : ToString(d) = c
        RECURSIVE Number(_)
        Number(t) ==
            IF t = "" THEN 0
            ELSE 10 * Number(SubSeq(t, 1, Len(t) - 1)) + Digit(SubSeq(t, Len(t), Len(t)))
    IN  Ordinal(Day(Number(SubSeq(str, 7, 10)), Number(SubSeq(str, 1, 2)),
                    Number(SubSeq(str, 4, 5))))

\* Array.sort((a, b) => new Date(b.Date) - new Date(a.Date)), a stable sort
SortByDate(txns) ==
    LET RECURSIVE InsertByDate(_, _)
        InsertByDate(t, s) ==
            IF s = <<>> THEN <<t>>
            ELSE IF DateOf(Head(s).Date) - DateOf(t.Date) <= 0 THEN <<t>> \o s
                 ELSE <<Head(s)>> \o InsertByDate(t, Tail(s))
        RECURSIVE Sort(_)
        Sort(s) == IF s = <<>> THEN <<>> ELSE InsertByDate(Head(s), Sort(Tail(s)))
    IN  Sort(txns)

\* Math.round(n / d * 100) / 100 in thousandths of a dollar (d > 0):
\* Math.round takes a half up
MathRound2(n, d) == ((2 * n + 10 * d) \div (20 * d)) * 10

RECURSIVE SumTxns(_)
SumTxns(txns) == IF txns = <<>> THEN 0 ELSE Head(txns).Amount + SumTxns(Tail(txns))

\* a merchant has to be seen three times
RepeatedThrice(m) == Len(m.transactions) >= 3

\* m.transactions.length >= 2
Repeated(m) == Len(m.transactions) >= 2

\* byMerchant has the merchants in order of first appearance; the last step
\* is .sort((a, b) => b.total - a.total)
getRecurringPayments(data) ==
    LET allTransactions == AllTransactions(data)
        names == unique([n \in 1..Len(allTransactions) |-> allTransactions[n].Description])
        byMerchant ==
            [k \in 1..Len(names) |->
                LET Named(t) == t.Description = names[k]
                    txns == SelectSeq(allTransactions, Named)
                IN  [name |-> names[k], category |-> txns[1].category,
                     transactions |-> txns, total |-> SumTxns(txns)]]
        kept == SelectSeq(byMerchant, Repeated)
        RECURSIVE InsertPayment(_, _)
        InsertPayment(m, s) ==
            IF s = <<>> THEN <<m>>
            ELSE IF Head(s).total - m.total <= 0 THEN <<m>> \o s
                 ELSE <<Head(s)>> \o InsertPayment(m, Tail(s))
        RECURSIVE SortPayments(_)
        SortPayments(ms) ==
            IF ms = <<>> THEN <<>> ELSE InsertPayment(Head(ms), SortPayments(Tail(ms)))
    IN  SortPayments([k \in 1..Len(kept) |->
            [name |-> kept[k].name,
             category |-> kept[k].category,
             count |-> Len(kept[k].transactions),
             total |-> MathRound2(kept[k].total, 1),
             avg |-> MathRound2(kept[k].total, Len(kept[k].transactions)),
             transactions |-> SortByDate(kept[k].transactions)]])

GetRecurringPayments ==
    /\ pc = "done"
    /\ DATA.set
    /\ DATA.raised = "none"
    /\ payments' = [set |-> TRUE, rows |-> getRecurringPayments(DATA)]
    /\ UNCHANGED <<loader, df, stats, business, breakdown, monthly,
                   velocity, dow, recurring, SUBSCRIPTIONS, DATA, subscriptions, later>>

\* no entry is treated as cancelled
NeverInactive(sub) == FALSE

\* sub.amount === 0
IsInactive(sub) == sub.amount = 0

\* a difference that has to stay below the tolerance
StrictlyWithinTolerance(txn, sub) == Abs(txn.Amount - sub.amount) < sub.tolerance

\* Math.abs(txn.Amount - sub.amount) <= sub.tolerance
WithinTolerance(txn, sub) == Abs(txn.Amount - sub.amount) <= sub.tolerance

\* a monthly entry counted active from five matches on
StatusFromFive(sub, count) ==
    IF count = 0 THEN "not-found"
    ELSE IF sub.cycle = "monthly" /\ count < 5 THEN "irregular"
    ELSE "active"

StatusOf(sub, count) ==
    IF count = 0 THEN "not-found"
    ELSE IF sub.cycle = "monthly" /\ count < 6 THEN "irregular"
    ELSE "active"

\* the comparator with the order of the expected cost turned around
CompareAscending(a, b) ==
    IF a.status = "inactive" /\ b.status # "inactive" THEN 1
    ELSE IF b.status = "inactive" /\ a.status # "inactive" THEN -1
    ELSE a.expectedMonthly - b.expectedMonthly

\* the comparator of results.sort: above 0 puts a after b
Compare(a, b) ==
    IF a.status = "inactive" /\ b.status # "inactive" THEN 1
    ELSE IF b.status = "inactive" /\ a.status # "inactive" THEN -1
    ELSE b.expectedMonthly - a.expectedMonthly

\* the total over the calendar months the matches fall in
ActualOverSpan(total, matches) ==
    LET months == {<<SubSeq(matches[n].Date, 7, 10), SubSeq(matches[n].Date, 1, 2)>> :
                      n \in 1..Len(matches)}
    IN  MathRound2(total, IF months = {} THEN 1 ELSE Cardinality(months))

\* Math.round((total / 12) * 100) / 100
ActualMonthly(total, matches) == MathRound2(total, 12)

\* one entry for each definition of the catalog: the fixed entry of a $0
\* definition, or the matches with their totals and status; expectedMonthly
\* is the amount over the months of the cycle; results.sort is stable
getSubscriptions(data, catalog) ==
    \* the filter of allTransactions: `if (txn.Amount <= 0) return false`, then
    \* sub.patterns.some(pattern =>
    \*     txn.Description.toUpperCase().includes(pattern.toUpperCase()))
    LET Matches(txn, sub) ==
            /\ ~(txn.Amount <= 0)
            /\ LET description == str_upper(txn.Description)
               IN  \E k \in 1..Len(sub.patterns) :
                      Contains(description, str_upper(sub.patterns[k]))
            /\ WithinTolerance(txn, sub)
    IN  LET allTransactions == AllTransactions(data)
            Inactive(sub) ==
                [name |-> sub.name, subCategory |-> sub.category, cycle |-> sub.cycle,
                 expectedAmount |-> 0, expectedMonthly |-> 0, count |-> 0, total |-> 0,
                 actualMonthly |-> 0, status |-> "inactive",
                 note |-> IF sub.note = "" THEN "Not active" ELSE sub.note,
                 transactions |-> <<>>]
            Found(sub) ==
                LET Matching(txn) == Matches(txn, sub)
                    matches == SelectSeq(allTransactions, Matching)
                    total == SumTxns(matches)
                    months == IF sub.cycle = "annual" THEN 12
                              ELSE IF sub.cycle = "biannual" THEN 6 ELSE 1
                IN  [name |-> sub.name, subCategory |-> sub.category, cycle |-> sub.cycle,
                     expectedAmount |-> sub.amount,
                     expectedMonthly |-> MathRound2(sub.amount, months),
                     count |-> Len(matches),
                     total |-> MathRound2(total, 1),
                     actualMonthly |-> ActualMonthly(total, matches),
                     status |-> StatusOf(sub, Len(matches)),
                     note |-> sub.note,
                     transactions |-> SortByDate(matches)]
            RECURSIVE InsertResult(_, _)
            InsertResult(e, s) ==
                IF s = <<>> THEN <<e>>
                ELSE IF Compare(e, Head(s)) <= 0 THEN <<e>> \o s
                     ELSE <<Head(s)>> \o InsertResult(e, Tail(s))
            RECURSIVE SortResults(_)
            SortResults(es) ==
                IF es = <<>> THEN <<>> ELSE InsertResult(Head(es), SortResults(Tail(es)))
        IN  SortResults([k \in 1..Len(catalog) |->
                IF IsInactive(catalog[k]) THEN Inactive(catalog[k]) ELSE Found(catalog[k])])

GetSubscriptions ==
    /\ pc = "done"
    /\ DATA.set
    /\ DATA.raised = "none"
    /\ subscriptions' = [set |-> TRUE, rows |-> getSubscriptions(DATA, SUBSCRIPTIONS)]
    /\ UNCHANGED <<loader, df, stats, business, breakdown, monthly,
                   velocity, dow, recurring, SUBSCRIPTIONS, DATA, payments, later>>

----------------------------------------------------------------------------
(* The dashboard page: filters, views and the tooltip *)

\* relevantMonths of getFilteredData: the keys of DATA.byMonth that start with
\* currentYear, or the one key `${currentYear}-${currentMonth}` if it is there
relevantMonths(data, year, month) ==
    LET StartsWith(ym) == Len(year) <= Len(ym) /\ SubSeq(ym, 1, Len(year)) = year
        Relevant(m) == IF month = "all" THEN StartsWith(m.ym)
                       ELSE m.ym = year \o "-" \o month
    IN  SelectSeq(data.byMonth, Relevant)

\* the months of the period added up category by category, the categories in
\* the order they are first met
getFilteredData(data, year, month) ==
    LET months == relevantMonths(data, year, month)
        RECURSIVE Flatten(_)
        Flatten(lists) ==
            IF lists = <<>> THEN <<>> ELSE Head(lists) \o Flatten(Tail(lists))
        RECURSIVE Sum(_)
        Sum(s) == IF s = <<>> THEN 0 ELSE Head(s) + Sum(Tail(s))
        all == Flatten([k \in 1..Len(months) |-> months[k].categories])
        cats == unique([k \in 1..Len(all) |-> all[k].category])
    IN  [total |-> MathRound2(Sum([k \in 1..Len(months) |-> months[k].total]), 1),
         categories |->
            [c \in 1..Len(cats) |->
                LET Named(e) == e.category = cats[c]
                    parts == SelectSeq(all, Named)
                IN  [category |-> cats[c],
                     total |-> MathRound2(Sum([k \in 1..Len(parts) |-> parts[k].total]), 1),
                     count |-> Sum([k \in 1..Len(parts) |-> parts[k].count]),
                     transactions |->
                         Flatten([k \in 1..Len(parts) |-> parts[k].transactions])]]]

\* the category rows of #funnel: none when the period's total is 0, else the
\* categories by descending total (a stable sort)
renderFunnel(data) ==
    LET RECURSIVE Insert(_, _)
        Insert(c, s) ==
            IF s = <<>> THEN <<c>>
            ELSE IF Head(s).total - c.total <= 0 THEN <<c>> \o s
                 ELSE <<Head(s)>> \o Insert(c, Tail(s))
        RECURSIVE Sort(_)
        Sort(s) == IF s = <<>> THEN <<>> ELSE Insert(Head(s), Sort(Tail(s)))
    IN  IF data.total = 0 THEN <<>> ELSE Sort(data.categories)

\* no description is excluded
NoExclusions == <<>>

\* DOG_EXCLUDE_PATTERNS, each regular expression as the upper-cased texts it
\* finds (\s? is a blank or nothing)
DOG_EXCLUDE_PATTERNS ==
    << {"HOTDOG", "HOT DOG"}, {"BREWDOG"}, {"DOGHAUS", "DOG HAUS"} >>

DOG_PATTERNS ==
    << [pattern |-> {"PETSMART"}, category |-> "Pet Store"],
       [pattern |-> {"PETCO"}, category |-> "Pet Store"],
       [pattern |-> {"PETSUPPLIES", "PET SUPPLIES"}, category |-> "Pet Store"],
       [pattern |-> {"CHEWY"}, category |-> "Pet Store"],
       [pattern |-> {"PETMED"}, category |-> "Medications"],
       [pattern |-> {"VET", "VETERINAR"}, category |-> "Vet"],
       [pattern |-> {"ANIMALHOSPITAL", "ANIMAL HOSPITAL"}, category |-> "Vet"],
       [pattern |-> {"ROVER.COM"}, category |-> "Services"],
       [pattern |-> {"WAG!"}, category |-> "Services"],
       [pattern |-> {"GROOM"}, category |-> "Grooming"],
       [pattern |-> {"KENNEL", "BOARDING"}, category |-> "Boarding"],
       [pattern |-> {"DOGDAYCARE", "DOG DAYCARE"}, category |-> "Daycare"],
       [pattern |-> {"BARKBOX", "BARK BOX"}, category |-> "Subscription"] >>

\* the transactions of every month of DATA.byMonth that pass the filter
\* (amount, then the exclusions, then the rules in order), each with
\* originalCategory and the dogCategory of the first rule that matched
getDogData(data) ==
    LET Test(pattern, upper) == \E text \in pattern : Contains(upper, text)
        Rule(desc) ==
            LET upper == str_upper(desc)
            IN  {k \in 1..Len(DOG_PATTERNS) : Test(DOG_PATTERNS[k].pattern, upper)}
        Passes(txn) ==
            LET upper == str_upper(txn.Description)
            IN  /\ ~(txn.Amount <= 0)
                /\ ~\E k \in 1..Len(DOG_EXCLUDE_PATTERNS) :
                        Test(DOG_EXCLUDE_PATTERNS[k], upper)
                /\ Rule(txn.Description) # {}
        kept == SelectSeq(AllTransactions(data), Passes)
        First(desc) == LET rule == Rule(desc)
                       IN  CHOOSE k \in rule : \A j \in rule : k <= j
    IN  [n \in 1..Len(kept) |->
            [Date |-> kept[n].Date, Amount |-> kept[n].Amount,
             Description |-> kept[n].Description,
             originalCategory |-> kept[n].category,
             dogCategory |-> DOG_PATTERNS[First(kept[n].Description)].category]]

\* an unpinTooltip that leaves the tooltip expanded
unpinKeepsExpanded ==
    /\ pinnedCategory' = null
    /\ UNCHANGED expandedTooltip
    /\ currentTooltipData' = Unset
    /\ tooltip' = [tooltip EXCEPT !.visible = FALSE, !.pinned = FALSE]

\* unpinTooltip(); the tooltip keeps its innerHTML
unpinTooltip ==
    /\ pinnedCategory' = null
    /\ expandedTooltip' = FALSE
    /\ currentTooltipData' = Unset
    /\ tooltip' = [tooltip EXCEPT !.visible = FALSE, !.pinned = FALSE]

\* showTooltip(event, cat, catData, forceExpanded) with the tooltip's classes
\* as they are once the caller has returned
showTooltip(row, expanded, pinned) ==
    /\ currentTooltipData' = row
    /\ tooltip' = [visible |-> TRUE, pinned |-> pinned,
                   link |-> IF Len(row.transactions) > 20
                            THEN IF expanded THEN "collapse" ELSE "expand"
                            ELSE "none"]

\* a render whose subscriptions are matched in the months of the period
renderWindowed(year, month, view) ==
    /\ unpinTooltip
    /\ funnel' = IF view = "categories"
                 THEN renderFunnel(getFilteredData(DATA, year, month)) ELSE funnel
    /\ dog' = IF view = "dog" THEN [set |-> TRUE, rows |-> getDogData(DATA)] ELSE dog
    /\ subscriptions' =
          IF view = "subscriptions"
          THEN [set |-> TRUE,
                rows |-> getSubscriptions(
                             [DATA EXCEPT !.byMonth = relevantMonths(DATA, year, month)],
                             SUBSCRIPTIONS)]
          ELSE subscriptions
    /\ payments' = IF view = "recurring"
                   THEN [set |-> TRUE, rows |-> getRecurringPayments(DATA)] ELSE payments

\* render() under the filters and the view the handler has just set
render(year, month, view) ==
    /\ unpinTooltip
    /\ funnel' = IF view = "categories"
                 THEN renderFunnel(getFilteredData(DATA, year, month)) ELSE funnel
    /\ dog' = IF view = "dog" THEN [set |-> TRUE, rows |-> getDogData(DATA)] ELSE dog
    /\ subscriptions' =
          IF view = "subscriptions"
          THEN [set |-> TRUE, rows |-> getSubscriptions(DATA, SUBSCRIPTIONS)]
          ELSE subscriptions
    /\ payments' = IF view = "recurring"
                   THEN [set |-> TRUE, rows |-> getRecurringPayments(DATA)] ELSE payments

\* what no handler of the page assigns
embedded == <<loader, df, stats, business, breakdown, monthly, velocity, dow, recurring,
              SUBSCRIPTIONS, DATA, merchants, impulse, analysis_df, business_df>>

\* a click on a view tab
ViewTabClick ==
    /\ pc = "open"
    /\ \E view \in {"categories", "dining", "dog", "subscriptions", "recurring"} :
        /\ currentView' = view
        /\ render(currentYear, currentMonth, view)
        /\ UNCHANGED <<embedded, currentYear, currentMonth>>

YearFilterChange ==
    \* the change handler of #yearFilter
    LET YearChange(year) ==
            /\ currentYear' = year
            /\ currentMonth' = "all"
            /\ render(year, "all", currentView)
    IN  /\ pc = "open"
        /\ \E year \in Range(DATA.years) \ {currentYear} :
            /\ YearChange(year)
            /\ UNCHANGED <<embedded, currentView>>

\* the change handler of #monthFilter, over the options updateMonthFilter left
MonthFilterChange ==
    \* updateMonthFilter: an option for each key of DATA.byMonth that starts with
    \* currentYear, its value parseInt of what follows the '-' padded to two digits
    LET MonthOptions(data, year) ==
            LET keys == relevantMonths(data, year, "all")
                Dash(ym) == CHOOSE n \in 1..Len(ym) :
                                /\ SubSeq(ym, n, n) = "-"
                                /\ \A m \in 1..(n - 1) : SubSeq(ym, m, m) # "-"
                IsDigit(c) == \E d \in 0..9 : ToString(d) = c
                Digit(c) == CHOOSE d \in 0..9 : ToString(d) = c
                RECURSIVE ParseInt(_, _)
                ParseInt(str, acc) ==
                    IF str = "" \/ ~IsDigit(SubSeq(str, 1, 1)) THEN acc
                    ELSE ParseInt(SubSeq(str, 2, Len(str)), 10 * acc + Digit(SubSeq(str, 1, 1)))
                Pad(n) == IF n < 10 THEN "0" \o ToString(n) ELSE ToString(n)
            IN  {Pad(ParseInt(SubSeq(keys[k].ym, Dash(keys[k].ym) + 1, Len(keys[k].ym)), 0)) :
                    k \in 1..Len(keys)}
    IN  /\ pc = "open"
        /\ \E month \in ({"all"} \cup MonthOptions(DATA, currentYear)) \ {currentMonth} :
            /\ currentMonth' = month
            /\ render(currentYear, month, currentView)
            /\ UNCHANGED <<embedded, currentYear, currentView>>

\* mouseenter on a category row: showTooltip unless a tooltip is pinned
RowMouseEnter ==
    \E k \in 1..Len(funnel) :
        /\ currentView = "categories"
        /\ pinnedCategory = null
        /\ showTooltip(funnel[k], expandedTooltip, tooltip.pinned)
        /\ UNCHANGED <<embedded, currentYear, currentMonth, currentView, pinnedCategory,
                       expandedTooltip, funnel, dog, subscriptions, payments>>

\* mouseleave: hideTooltip unless a tooltip is pinned
RowMouseLeave ==
    /\ currentView = "categories"
    /\ funnel # <<>>
    /\ pinnedCategory = null
    /\ tooltip.visible
    /\ tooltip' = [tooltip EXCEPT !.visible = FALSE]
    /\ UNCHANGED <<embedded, currentYear, currentMonth, currentView, pinnedCategory,
                   expandedTooltip, currentTooltipData, funnel, dog, subscriptions, payments>>

\* a click on a category row: unpinTooltip on the pinned row, else pinTooltip
RowClick ==
    \E k \in 1..Len(funnel) :
        /\ currentView = "categories"
        /\ IF pinnedCategory = funnel[k].category
           THEN unpinTooltip
           ELSE /\ pinnedCategory' = funnel[k].category
                /\ showTooltip(funnel[k], expandedTooltip, TRUE)
                /\ UNCHANGED expandedTooltip
        /\ UNCHANGED <<embedded, currentYear, currentMonth, currentView,
                       funnel, dog, subscriptions, payments>>

\* a click on a subscription row that has a handler (the first entry of its
\* name has matches): unpinTooltip on the pinned row, else
\* showSubscriptionTooltip and the pin
SubscriptionRowClick ==
    /\ currentView = "subscriptions"
    /\ \E k \in 1..Len(subscriptions.rows) :
          LET name == subscriptions.rows[k].name
              found == CHOOSE f \in 1..k :
                          /\ subscriptions.rows[f].name = name
                          /\ \A e \in 1..(f - 1) : subscriptions.rows[e].name # name
          IN  /\ subscriptions.rows[found].count # 0
              /\ IF pinnedCategory = name
                 THEN unpinTooltip
                 ELSE /\ pinnedCategory' = name
                      /\ tooltip' = [visible |-> TRUE, pinned |-> TRUE, link |-> "none"]
                      /\ UNCHANGED <<expandedTooltip, currentTooltipData>>
    /\ UNCHANGED <<embedded, currentYear, currentMonth, currentView,
                   funnel, dog, subscriptions, payments>>

\* a click on a row of the recurring view: unpinTooltip on the pinned row,
\* else showRecurringTooltip and the pin
RecurringRowClick ==
    /\ currentView = "recurring"
    /\ \E k \in 1..Len(payments.rows) :
          IF pinnedCategory = payments.rows[k].name
          THEN unpinTooltip
          ELSE /\ pinnedCategory' = payments.rows[k].name
               /\ tooltip' = [visible |-> TRUE, pinned |-> TRUE, link |-> "none"]
               /\ UNCHANGED <<expandedTooltip, currentTooltipData>>
    /\ UNCHANGED <<embedded, currentYear, currentMonth, currentView,
                   funnel, dog, subscriptions, payments>>

\* a click on the tooltip's close button; the tooltip takes clicks only
\* with the class pinned
CloseClick ==
    /\ tooltip.pinned
    /\ unpinTooltip
    /\ UNCHANGED <<embedded, currentYear, currentMonth, currentView,
                   funnel, dog, subscriptions, payments>>

\* a click outside the tooltip and the rows while a tooltip is pinned
OutsideClick ==
    /\ pinnedCategory # null
    /\ unpinTooltip
    /\ UNCHANGED <<embedded, currentYear, currentMonth, currentView,
                   funnel, dog, subscriptions, payments>>

\* a click on 'Show all': expandTooltip()
ExpandClick ==
    /\ tooltip.pinned
    /\ tooltip.link = "expand"
    /\ IF currentTooltipData # Unset
       THEN /\ expandedTooltip' = TRUE
            /\ showTooltip(currentTooltipData, TRUE, TRUE)
       ELSE UNCHANGED <<expandedTooltip, currentTooltipData, tooltip>>
    /\ UNCHANGED <<embedded, currentYear, currentMonth, currentView, pinnedCategory,
                   funnel, dog, subscriptions, payments>>

\* a click on 'Show less': collapseTooltip()
CollapseClick ==
    /\ tooltip.pinned
    /\ tooltip.link = "collapse"
    /\ IF currentTooltipData # Unset
       THEN /\ expandedTooltip' = FALSE
            /\ showTooltip(currentTooltipData, TRUE, TRUE)
       ELSE UNCHANGED <<expandedTooltip, currentTooltipData, tooltip>>
    /\ UNCHANGED <<embedded, currentYear, currentMonth, currentView, pinnedCategory,
                   funnel, dog, subscriptions, payments>>

----------------------------------------------------------------------------
(* The summary and the business view of a loaded frame *)

MaxStatRows == 3    \* rows of the frame the summary is taken of

Txn(dt, amt, desc, cat) ==
    [Date |-> dt, Amount |-> amt, Description |-> desc, Category |-> cat]

FrameCols == ColsA \cup {"Year", "Month", "YearMonth"}

\* the frames of at most n rows over a menu of rows, as a loader leaves them
LoadedFrames(menu, n) ==
    UNION {{[cols |-> FrameCols, rows |-> Derive(r)] : r \in [1..m -> menu]} : m \in 0..n}

Loaded ==
    /\ sources = <<>>
    /\ pc = "done"
    /\ i = 1
    /\ all_dfs = <<>>
    /\ warnings = <<>>
    /\ error = "none"
    /\ NoResults

InitStats ==
    LET StatRows ==
            { Txn(Day(2024, 1, 5), Val(45000), "Example Hosting Inc", "Business"),
              Txn(Day(2024, 1, 5), NaN, "Example Hosting Inc", "Business"),
              Txn(Day(2024, 2, 5), Val(-20000), "EXAMPLE API refund", "Business"),
              Txn(Day(2024, 2, 5), Val(15490), "NETFLIX.COM", "Entertainment"),
              Txn(Day(2024, 2, 5), Val(0), "NETFLIX.COM", "Entertainment"),
              Txn(Day(2023, 12, 31), NaN, "NETFLIX.COM", "Entertainment"),
              Txn(Day(2024, 3, 10), Val(-45000), "AMAZON", "Shopping"),
              Txn(NaT, Val(12345), "Example Design Co", "Business") }
    IN  /\ df \in LoadedFrames(StatRows, MaxStatRows)
        /\ SUBSCRIPTIONS = SourceCatalog
        /\ Loaded

NextStats ==
    \/ GetSummaryStats
    \/ ProcessBusinessData
    \/ SpendingVelocity
    \/ DayOfWeekAnalysis

SpecStats == InitStats /\ [][NextStats]_vars

MaxCatRows == 5     \* rows of the frame the category breakdown is taken of

\* the row lists of at most n rows of a menu, one for each choice of rows:
\* the rows stand in menu order, which no grouping looks at
RECURSIVE Picks(_, _, _)
Picks(menu, from, n) ==
    IF n = 0 THEN {<<>>}
    ELSE {<<>>} \cup
         UNION {LET rest == Picks(menu, k, n - 1)
                IN  {<<menu[k]>> \o r : r \in rest} : k \in from..Len(menu)}

InitCat ==
    LET CatRows ==
            << Txn(Day(2024, 1, 5), Val(12540), "AMAZON", "Dining"),
               Txn(Day(2024, 1, 5), Val(49840), "AMAZON", "Dining"),
               Txn(Day(2024, 1, 5), Val(-20000), "AMAZON", "Dining"),
               Txn(Day(2024, 1, 5), Val(12540), "AMAZON", "Fuel"),
               Txn(Day(2024, 1, 5), Val(49840), "AMAZON", "Fuel"),
               Txn(Day(2024, 1, 5), NaN, "AMAZON", "Fuel"),
               Txn(Day(2024, 1, 5), Val(12540), "AMAZON", "Groceries"),
               Txn(Day(2024, 1, 5), Val(49840), "AMAZON", "Groceries"),
               Txn(Day(2024, 1, 5), Val(12540), "AMAZON", "Health"),
               Txn(Day(2024, 1, 5), Val(49840), "AMAZON", "Health"),
               Txn(Day(2024, 1, 5), Val(12540), "AMAZON", "Shopping"),
               Txn(Day(2024, 1, 5), Val(49840), "AMAZON", "Shopping"),
               Txn(Day(2024, 1, 5), Val(-60000), "AMAZON", "Shopping") >>
    IN  /\ df \in {[cols |-> FrameCols, rows |-> Derive(r)] : r \in Picks(CatRows, 1, MaxCatRows)}
        /\ SUBSCRIPTIONS = SourceCatalog
        /\ Loaded

SpecCat == InitCat /\ [][CategoryBreakdown]_vars

MaxMonthRows == 4   \* rows of the frame the monthly totals are taken of

InitMonthly ==
    LET MonthRows ==
            { Txn(Day(2024, 1, 5), Val(100000), "AMAZON", "Shopping"),
              Txn(Day(2024, 2, 5), Val(150000), "AMAZON", "Shopping"),
              Txn(Day(2024, 3, 10), Val(120000), "AMAZON", "Shopping"),
              Txn(Day(2024, 1, 20), Val(50000), "NETFLIX.COM", "Entertainment"),
              Txn(Day(2023, 12, 31), Val(-20000), "AMAZON", "Shopping"),
              Txn(Day(2023, 12, 31), Val(20000), "AMAZON", "Shopping"),
              Txn(Day(2024, 3, 10), NaN, "AMAZON", "Shopping"),
              Txn(NaT, Val(10000), "AMAZON", "Shopping") }
    IN  /\ df \in LoadedFrames(MonthRows, MaxMonthRows)
        /\ SUBSCRIPTIONS = SourceCatalog
        /\ Loaded

SpecMonthly == InitMonthly /\ [][MonthlyTotals]_vars

MaxRecurRows == 4   \* rows of the frame the recurring charges are looked for in

InitRecur ==
    LET RecurRows ==
            << Txn(Day(2024, 1, 5), Val(10000), "NETFLIX.COM", "Entertainment"),
               Txn(Day(2024, 1, 20), Val(10000), "NETFLIX.COM", "Entertainment"),
               Txn(Day(2024, 2, 5), Val(20000), "NETFLIX.COM", "Entertainment"),
               Txn(Day(2024, 3, 10), Val(12000), "NETFLIX.COM", "Entertainment"),
               Txn(NaT, Val(10000), "NETFLIX.COM", "Entertainment"),
               Txn(Day(2024, 1, 5), Val(20000), "AMAZON", "Shopping"),
               Txn(Day(2024, 1, 5), NaN, "AMAZON", "Shopping"),
               Txn(Day(2024, 2, 5), Val(10000), "AMAZON", "Shopping"),
               Txn(Day(2024, 2, 5), Val(-10000), "AMAZON", "Shopping"),
               Txn(Day(2024, 3, 10), Val(-10000), "AMAZON", "Shopping") >>
    IN  /\ df \in {[cols |-> FrameCols, rows |-> Derive(r)] : r \in Picks(RecurRows, 1, MaxRecurRows)}
        /\ SUBSCRIPTIONS = SourceCatalog
        /\ Loaded

SpecRecur == InitRecur /\ [][FindRecurringCharges]_vars

MaxDashRows == 6    \* rows of the frame the dashboard is generated from

\* the row lists of at most n different rows of a menu, in menu order
RECURSIVE Choices(_, _, _)
Choices(menu, from, n) ==
    IF n = 0 THEN {<<>>}
    ELSE {<<>>} \cup
         UNION {LET rest == Choices(menu, k + 1, n - 1)
                IN  {<<menu[k]>> \o r : r \in rest} : k \in from..Len(menu)}

\* the rows of the dashboard frames; drop_duplicates leaves no two rows of one
\* date, amount and description
InitDash ==
    \* the catalogs a page is generated with: the source's, one edited the ways
    \* getSubscriptions provides for (an entry set to $0 with and without a note,
    \* an annual and a biannual entry), and one with the $0 entry at the end and
    \* a zero tolerance
    LET Catalogs ==
            LET EditedCatalog ==
                    << Sub("Hulu", <<"HULU">>, "Streaming", 0, "monthly", 2000, "Canceled"),
                       Sub("Spotify", <<"spotify">>, "Streaming", 10990, "monthly", 2000, ""),
                       Sub("Netflix Premium", <<"NETFLIX">>, "Streaming", 45000, "annual", 5000, ""),
                       Sub("Netflix", <<"NETFLIX">>, "Streaming", 0, "monthly", 2000, ""),
                       Sub("Car Insurance", <<"STATE FARM">>, "Insurance", 600000, "biannual", 50000, ""),
                       Sub("Netflix", <<"NETFLIX">>, "Streaming", 15490, "monthly", 2000, "") >>
                ExactCatalog ==
                    << Sub("Netflix", <<"NETFLIX">>, "Streaming", 15490, "monthly", 0, ""),
                       Sub("Netflix (annual)", <<"Netflix">>, "Streaming", 185880, "annual", 0, ""),
                       Sub("Hulu", <<"HULU">>, "Streaming", 0, "annual", 2000, "") >>
            IN  {SourceCatalog, EditedCatalog, ExactCatalog}
    IN  LET DashRows ==
                << Txn(Day(2024, 1, 5), Val(45000), "NETFLIX.COM", "Entertainment"),
                   Txn(Day(2024, 2, 5), Val(15490), "NETFLIX.COM", "Entertainment"),
                   Txn(Day(2024, 2, 20), Val(15490), "NETFLIX.COM", "Streaming"),
                   Txn(Day(2024, 3, 10), Val(17490), "Netflix.com", "Entertainment"),
                   Txn(Day(2024, 4, 5), Val(17500), "NETFLIX.COM", "Entertainment"),
                   Txn(Day(2024, 5, 5), Val(13490), "NETFLIX.COM", "Entertainment"),
                   Txn(Day(2024, 6, 5), Val(15490), "NETFLIX.COM", "Entertainment"),
                   Txn(Day(2023, 12, 31), Val(15490), "NETFLIX.COM", "Entertainment"),
                   Txn(Day(2024, 2, 5), Val(-15490), "NETFLIX.COM", "Entertainment"),
                   Txn(NaT, Val(15490), "NETFLIX.COM", "Entertainment") >>
        IN  /\ df \in {[cols |-> FrameCols, rows |-> Derive(r)] : r \in Choices(DashRows, 1, MaxDashRows)}
            /\ SUBSCRIPTIONS \in Catalogs
            /\ Loaded

NextDash ==
    \/ ProcessData
    \/ GetRecurringPayments
    \/ GetSubscriptions

SpecDash == InitDash /\ [][NextDash]_vars

MaxImpulseRows == 6     \* rows of the frame impulse spending is looked for in

\* analysis.load_transactions collapses no duplicates: a row may be met twice
InitImpulse ==
    LET ImpulseRows ==
            << Txn(Day(2024, 1, 5), Val(5000), "AMAZON", "Dining"),
               Txn(Day(2024, 1, 5), Val(25000), "AMAZON", "Shopping"),
               Txn(Day(2024, 1, 6), Val(-5000), "AMAZON", "Dining"),
               Txn(Day(2024, 1, 5), NaN, "AMAZON", "Shopping"),
               Txn(NaT, Val(20000), "AMAZON", "Dining") >>
    IN  /\ df \in {[cols |-> FrameCols, rows |-> Derive(r)] :
                      r \in Picks(ImpulseRows, 1, MaxImpulseRows)}
        /\ SUBSCRIPTIONS = SourceCatalog
        /\ Loaded

SpecImpulse == InitImpulse /\ [][DetectImpulseSpending]_vars

MaxCategoryRows == 21   \* charges of the largest category of a page frame

\* the frames the page is generated from: charges of two years with merchants
\* the dog rules look for, a category of more than 20 charges in one month, a frame
\* with an undated refund (its year and month columns are floats), no rows
InitPage ==
    LET Dog ==
            << Txn(Day(2023, 12, 31), Val(15490), "NETFLIX.COM", "Entertainment"),
               Txn(Day(2024, 1, 5), Val(45000), "PETSMART 123", "Shopping"),
               Txn(Day(2024, 2, 5), Val(15490), "NETFLIX.COM", "Entertainment"),
               Txn(Day(2024, 2, 20), Val(12000), "Hot Dog Vet", "Dining"),
               Txn(Day(2024, 2, 21), Val(4), "CHEWY", "Shopping"),
               Txn(Day(2024, 3, 10), Val(30000), "Chewy PetMed", "Health"),
               Txn(Day(2024, 3, 10), Val(-30000), "PETCO", "Shopping"),
               Txn(Day(2024, 3, 11), Val(8000), "CORVETTE PARTS", "Shopping") >>
        Many ==
            [n \in 1..MaxCategoryRows |->
                Txn(Day(2024, 1, n), Val(1000 * n), "AMAZON", "Shopping")]
            \o << Txn(Day(2024, 2, 5), Val(15490), "NETFLIX.COM", "Entertainment") >>
        Undated ==
            << Txn(Day(2024, 1, 5), Val(15490), "NETFLIX.COM", "Entertainment"),
               Txn(Day(2024, 2, 5), Val(15490), "NETFLIX.COM", "Entertainment"),
               Txn(NaT, Val(-15490), "NETFLIX.COM", "Entertainment") >>
    IN  /\ sources = <<>>
        /\ pc = "open"
        /\ i = 1
        /\ all_dfs = <<>>
        /\ warnings = <<>>
        /\ error = "none"
        /\ df \in {[cols |-> FrameCols, rows |-> Derive(r)] : r \in {Dog, Many, Undated, <<>>}}
        /\ SUBSCRIPTIONS = SourceCatalog
        /\ DATA = process_data(df.rows)
        /\ stats = Unset
        /\ business = Unset
        /\ breakdown = Unset
        /\ monthly = Unset
        /\ velocity = Unset
        /\ dow = Unset
        /\ recurring = Unset
        /\ merchants = Unset
        /\ impulse = Unset
        /\ analysis_df = Unset
        /\ business_df = Unset
        /\ payments = Unset
        /\ subscriptions = Unset
        /\ dog = Unset
        /\ currentYear = IF DATA.years = <<>> THEN "undefined"
                         ELSE DATA.years[Len(DATA.years)]
        /\ currentMonth = "all"
        /\ currentView = "categories"
        /\ pinnedCategory = null
        /\ expandedTooltip = FALSE
        /\ currentTooltipData = Unset
        /\ tooltip = [visible |-> FALSE, pinned |-> FALSE, link |-> "none"]
        /\ funnel = renderFunnel(getFilteredData(DATA, currentYear, "all"))

NextPage ==
    \/ ViewTabClick
    \/ YearFilterChange
    \/ MonthFilterChange
    \/ RowMouseEnter
    \/ RowMouseLeave
    \/ RowClick
    \/ SubscriptionRowClick
    \/ RecurringRowClick
    \/ CloseClick
    \/ OutsideClick
    \/ ExpandClick
    \/ CollapseClick

SpecPage == InitPage /\ [][NextPage]_vars

\* the analysis functions over a loaded frame, and the generated page
InitTool ==
    \/ /\ df \in {[cols |-> FrameCols, rows |-> Derive(r)] :
                      r \in { << Txn(Day(2024, 1, 5), Val(45000), "AMAZON", "Shopping"),
                                 Txn(Day(2024, 2, 5), Val(15490), "NETFLIX.COM", "Entertainment"),
                                 Txn(Day(2024, 3, 5), Val(15490), "NETFLIX.COM", "Entertainment"),
                                 Txn(Day(2024, 3, 10), Val(-45000), "AMAZON", "Shopping") >>,
                               << Txn(Day(2024, 1, 5), Val(5000), "AMAZON", "Dining"),
                                  Txn(Day(2024, 1, 5), Val(5000), "AMAZON", "Dining"),
                                  Txn(Day(2024, 1, 5), Val(5000), "AMAZON", "Dining"),
                                  Txn(Day(2024, 1, 6), Val(15490), "NETFLIX.COM", NA) >>,
                               << Txn(Day(2024, 1, 5), Val(45000), "AMAZON", NA),
                                  Txn(Day(2024, 2, 5), Val(15490), "NETFLIX.COM", NA) >> }}
       /\ SUBSCRIPTIONS = SourceCatalog
       /\ Loaded
    \/ InitPage

NextTool ==
    \/ GetSummaryStats
    \/ CategoryBreakdown
    \/ MonthlyTotals
    \/ TopMerchants
    \/ DayOfWeekAnalysis
    \/ FindRecurringCharges
    \/ DetectImpulseSpending
    \/ ProcessData
    \/ NextPage

SpecTool == InitTool /\ [][NextTool]_vars

----------------------------------------------------------------------------
(* Properties of generate_dashboard.load_transactions *)

\* the k-th smallest member of a set of integers
Nth(S, k) == CHOOSE n \in S : Cardinality({j \in S : j <= n}) = k

\* what the header of a file says, read off its column names alone
HeaderB(src) == "Transaction Date" \in src.cols
HeaderA(src) == ~HeaderB(src) /\ {"Date", "Amount"} \subseteq src.cols

\* the sources the loop has gone past and taken
Taken == {j \in 1..(i - 1) : HeaderA(sources[j]) \/ HeaderB(sources[j])}

\* the frame that source j, a taken one, left in all_dfs
FrameOf(j) == all_dfs[Cardinality({t \in Taken : t <= j})]

Base(r) ==
    [Date |-> r.Date, Amount |-> r.Amount,
     Description |-> r.Description, Category |-> r.Category]

\* C1: after the concatenation every (Date, Amount, Description) key of the
\* kept rows has exactly one record in the result, that record is the first
\* row with the key in source-iteration order, and the records stand in the
\* order their first rows had.
C1_DedupFirstWins ==
    pc = "done" =>
        LET c == ConcatRows(all_dfs)
            firsts == {n \in 1..Len(c) : \A j \in 1..(n - 1) : Key(c[j]) # Key(c[n])}
        IN  /\ Len(df.rows) = Cardinality(firsts)
            /\ \A k \in 1..Len(df.rows) : Base(df.rows[k]) = c[Nth(firsts, k)]
            /\ \A n \in 1..Len(c) :
                  Cardinality({k \in 1..Len(df.rows) : Key(df.rows[k]) = Key(c[n])}) = 1

\* C1 witness: two different rows with one key were loaded and one record is left
C1_Witness ==
    /\ pc = "done"
    /\ LET c == ConcatRows(all_dfs)
       IN  /\ Len(c) = 2
           /\ Key(c[1]) = Key(c[2])
           /\ c[1] # c[2]
    /\ Len(df.rows) = 1

\* the rows of a Schema B file whose Debit is a number above zero
DebitRows(src) ==
    {n \in 1..Len(src.rows) :
        src.rows[n]["Debit"].k = "num" /\ src.rows[n]["Debit"].v > 0}

\* C2: a row of a Schema B source becomes a transaction if and only if its
\* Debit is a number > 0, its Amount is then that Debit, and no Schema B row
\* gives a record with a negative (or zero) amount.
C2_SchemaBDebitOnly ==
    \A j \in Taken : HeaderB(sources[j]) =>
        LET src == sources[j]
            f == FrameOf(j)
        IN  /\ Len(f.rows) = Cardinality(DebitRows(src))
            /\ \A k \in 1..Len(f.rows) :
                  LET raw == src.rows[Nth(DebitRows(src), k)]
                  IN  /\ f.rows[k].Amount = Val(raw["Debit"].v)
                      /\ f.rows[k].Amount.v > 0
                      /\ f.rows[k].Description = raw["Description"]

\* C2 witness: a Schema B file with a purchase and a payment (Debit 0,
\* Credit 50.00) was read and only the purchase is in its frame
C2_Witness ==
    \E j \in Taken :
        /\ HeaderB(sources[j])
        /\ \E n \in 1..Len(sources[j].rows) :
              /\ sources[j].rows[n]["Debit"] = NumCell(0)
              /\ sources[j].rows[n]["Credit"] = NumCell(50000)
        /\ Len(FrameOf(j).rows) = 1
        /\ FrameOf(j).rows[1].Amount = Val(45000)

\* a header that is neither Schema A (Date, Amount) nor Schema B
\* (Transaction Date, Debit, Credit)
MatchesNeither(src) ==
    /\ ~({"Date", "Amount"} \subseteq src.cols)
    /\ ~({"Transaction Date", "Debit", "Credit"} \subseteq src.cols)

\* C3: a source whose columns match neither schema is skipped with a warning,
\* never aborts the run and contributes no frame.
C3_UnknownSourceSkipped ==
    /\ \A j \in 1..Len(sources) : MatchesNeither(sources[j]) =>
          /\ ~(pc = "error" /\ i = j)
          /\ (j < i => j \in Range(warnings))
    /\ Len(all_dfs) =
          Cardinality({j \in 1..(i - 1) : ~MatchesNeither(sources[j])})

\* C4 as stated: load_transactions never returns an empty record sequence.
C4_NeverReturnsEmpty == pc = "done" => df.rows # <<>>

\* the taken source j left no row
NoRowFrom(j) ==
    IF HeaderB(sources[j]) THEN DebitRows(sources[j]) = {}
    ELSE sources[j].rows = <<>>

\* C4 amended: once the loop is over, the run fails with the "No valid CSV
\* files" error exactly when no source was taken; when sources were taken
\* (one of them with a Description column) it returns, and what it returns is
\* empty exactly when the taken sources left no rows.
C4_FailsOnlyWhenNothingAccepted ==
    (pc # "loop" /\ i > Len(sources)) =>
        /\ (Taken = {}) <=> (pc = "error" /\ error = NoValidFiles)
        /\ (\E j \in Taken : "Description" \in sources[j].cols) =>
              /\ pc = "done"
              /\ (df.rows = <<>>) <=> (\A j \in Taken : NoRowFrom(j))

\* C4 witness: a source was taken, it left no rows, and the empty frame was returned
C4_Witness ==
    /\ pc = "done"
    /\ Taken # {}
    /\ \E j \in Taken : sources[j].rows # <<>>
    /\ df.rows = <<>>

\* C5 as stated, for Schema A sources: a date or amount that does not parse
\* (text that is no date of the format, text that is no number) never aborts
\* the load, and only the records whose date and amount both failed are
\* dropped.
C5_ParseFailureNeverAborts ==
    \A j \in 1..Len(sources) : HeaderA(sources[j]) =>
        /\ ~(pc = "error" /\ i = j)
        /\ j < i =>
              LET raw == sources[j].rows
                  kept == {n \in 1..Len(raw) :
                              ~(/\ raw[n]["Date"].k \notin {"mdy", "blank"}
                                /\ raw[n]["Amount"].k = "text")}
              IN  Len(FrameOf(j).rows) = Cardinality(kept)

\* C5 amended: in a Schema A source an amount that does not parse is nulled
\* and its record kept, as is a record with an empty date (also when both are
\* null), and every record of the source is loaded; the load aborts with a
\* ValueError exactly at a source holding a date that is not empty and not in
\* the source's format.
C5_AmountNulledBadDateAborts ==
    \A j \in 1..Len(sources) : HeaderA(sources[j]) =>
        LET raw == sources[j].rows
            bad == {n \in 1..Len(raw) : raw[n]["Date"].k \notin {"mdy", "blank"}}
        IN  /\ j < i =>
                  /\ bad = {}
                  /\ Len(FrameOf(j).rows) = Len(raw)
                  /\ \A n \in 1..Len(raw) :
                        /\ FrameOf(j).rows[n].Amount =
                              (IF raw[n]["Amount"].k = "num"
                               THEN Val(raw[n]["Amount"].v) ELSE NaN)
                        /\ FrameOf(j).rows[n].Date =
                              (IF raw[n]["Date"].k = "mdy"
                               THEN Day(raw[n]["Date"].y, raw[n]["Date"].m, raw[n]["Date"].d)
                               ELSE NaT)
            /\ (j = i /\ pc = "error") => (error = BadDate /\ bad # {})
            /\ (j = i /\ bad # {}) => pc \in {"loop", "error"}

\* C5 witness: a Schema A file with an unparseable amount and a record whose
\* date and amount are both empty was loaded whole
C5_Witness ==
    \E j \in Taken :
        /\ HeaderA(sources[j])
        /\ Len(FrameOf(j).rows) = 2
        /\ sources[j].rows[1]["Amount"] = TextCell
        /\ FrameOf(j).rows[1].Amount = NaN
        /\ FrameOf(j).rows[2].Amount = NaN
        /\ FrameOf(j).rows[2].Date = NaT

----------------------------------------------------------------------------
(* Properties of the summary and the business view *)

\* the sum of the amounts of the rows whose index is in S
RECURSIVE SumOver(_, _)
SumOver(rows, S) ==
    IF S = {} THEN 0
    ELSE LET n == CHOOSE n \in S : TRUE
         IN  rows[n].Amount.v + SumOver(rows, S \ {n})

Parsed(rows) == {n \in 1..Len(rows) : ~rows[n].Amount.nan}

SummaryIgnoresNulls ==
    stats.set =>
        LET r == df.rows
        IN  /\ stats.gross_spent = SumOver(r, {n \in Parsed(r) : r[n].Amount.v > 0})
            /\ stats.refunds = SumOver(r, {n \in Parsed(r) : r[n].Amount.v < 0})
            /\ stats.net_spent = SumOver(r, Parsed(r))
            /\ stats.purchase_count = Cardinality({n \in Parsed(r) : r[n].Amount.v > 0})
            /\ stats.refund_count = Cardinality({n \in Parsed(r) : r[n].Amount.v < 0})

\* C6: a record with a null amount adds nothing to gross_spent, refunds or
\* net_spent, is counted neither as a purchase nor as a refund, and is in
\* neither list of the business view: every listed transaction has an amount
\* > 0 and every listed refund an amount < 0.
C6_NullAmountExcluded ==
    /\ SummaryIgnoresNulls
    /\ business.set =>
          /\ \A n \in 1..Len(business.transactions) :
                Gt0(business.transactions[n].amount)
          /\ \A n \in 1..Len(business.refunds) :
                Lt0(business.refunds[n].amount)

\* C8: gross_spent + refunds = net_spent, with gross_spent the sum of the
\* amounts > 0, refunds the sum of the amounts < 0 (so not positive) and
\* net_spent the sum of all the amounts.
C8_GrossPlusRefundsIsNet ==
    stats.set =>
        LET r == df.rows
        IN  /\ stats.gross_spent + stats.refunds = stats.net_spent
            /\ stats.gross_spent = SumOver(r, {n \in Parsed(r) : r[n].Amount.v > 0})
            /\ stats.refunds = SumOver(r, {n \in Parsed(r) : r[n].Amount.v < 0})
            /\ stats.refunds <= 0

\* C8 witness: a summary over a purchase, a refund and a record without amount
C8_Witness ==
    /\ stats.set
    /\ stats.gross_spent > 0
    /\ stats.refunds < 0
    /\ stats.purchase_count + stats.refund_count < stats.transaction_count
    /\ \E n \in 1..Len(df.rows) : df.rows[n].Amount.nan

----------------------------------------------------------------------------
(* Properties of the category breakdown *)

PositiveRows == {n \in 1..Len(breakdown.rows) : breakdown.rows[n].Total > 0}

RECURSIVE SumPercent(_)
SumPercent(S) ==
    IF S = {} THEN 0
    ELSE LET n == CHOOSE n \in S : TRUE
         IN  breakdown.rows[n].Percent.v + SumPercent(S \ {n})

RECURSIVE TotalOfRows(_)
TotalOfRows(S) ==
    IF S = {} THEN 0
    ELSE LET n == CHOOSE n \in S : TRUE
         IN  breakdown.rows[n].Total + TotalOfRows(S \ {n})

\* C9 as stated: with at least one category of positive Total, the Percent of
\* the categories with positive Total add up to 100 within 0.1.
C9_PercentSumWithinTenth ==
    (breakdown.set /\ PositiveRows # {}) =>
        Abs(SumPercent(PositiveRows) - 1000) <= 1

\* C9 amended: the Percent of the k categories with positive Total add up to
\* 100 within 0.05 * k (so within 0.1 for up to three categories), each being
\* the category's share of the positive total rounded to one decimal.
C9_PercentSumWithinHalfTenthEach ==
    (breakdown.set /\ PositiveRows # {}) =>
        /\ 2 * Abs(SumPercent(PositiveRows) - 1000) <= Cardinality(PositiveRows)
        /\ \A n \in PositiveRows :
              /\ breakdown.rows[n].Percent.k = "num"
              /\ LET pos == TotalOfRows(PositiveRows)
                 IN  Abs(breakdown.rows[n].Percent.v * pos
                         - breakdown.rows[n].Total * 1000) * 2 <= pos

\* C9 witness: five categories with positive totals whose Percent add up to 99.8
C9_Witness ==
    /\ breakdown.set
    /\ Cardinality(PositiveRows) = 5
    /\ SumPercent(PositiveRows) = 998

----------------------------------------------------------------------------
(* Properties of the monthly totals *)

Dated(rows) == {n \in 1..Len(rows) : ~rows[n].Date.nat}

\* the rows monthly_totals aggregates: the dated ones, with purchases_only
\* those of them with an amount > 0
Counted(rows, purchases_only) ==
    {n \in Dated(rows) : purchases_only => Gt0(rows[n].Amount)}

YearMonthOf(dt) == <<dt.y, dt.m>>

Chronological(rows) ==
    \A k \in 2..Len(rows) :
        \/ rows[k - 1].Month[1] < rows[k].Month[1]
        \/ /\ rows[k - 1].Month[1] = rows[k].Month[1]
           /\ rows[k - 1].Month[2] < rows[k].Month[2]

\* the first row has no change, every later row has Change = Total minus the
\* Total before it and Change_Pct = Change / the Total before it * 100
ChangesFollow(rows) ==
    \A k \in 1..Len(rows) :
        IF k = 1 THEN rows[k].Change = NaN /\ rows[k].Change_Pct = RatNaN
        ELSE /\ rows[k].Change = Val(rows[k].Total - rows[k - 1].Total)
             /\ rows[k].Change_Pct =
                   (IF rows[k - 1].Total # 0
                    THEN Rat(rows[k].Change.v * 100, rows[k - 1].Total)
                    ELSE Quot(rows[k].Change.v, 0))

\* the months of the rows of df whose index is in S have one row each
OneRowPerMonth(S) ==
    /\ \A n \in S :
          Cardinality({k \in 1..Len(monthly.rows) :
                          monthly.rows[k].Month = YearMonthOf(df.rows[n].Date)}) = 1
    /\ \A k \in 1..Len(monthly.rows) :
          \E n \in S : monthly.rows[k].Month = YearMonthOf(df.rows[n].Date)

\* C10 as stated: one row for every year-month present in the data, in
\* chronological order, the changes as above.
C10_RowPerMonthInData ==
    monthly.set =>
        /\ OneRowPerMonth(Dated(df.rows))
        /\ Chronological(monthly.rows)
        /\ ChangesFollow(monthly.rows)

\* C10 amended: one row for every year-month holding a record the call
\* aggregates (an amount > 0 under purchases_only, any dated record
\* otherwise), in chronological order, its Total the rounded sum of those
\* records, the changes as above.
C10_RowPerCountedMonth ==
    monthly.set =>
        /\ OneRowPerMonth(Counted(df.rows, monthly.purchases_only))
        /\ Chronological(monthly.rows)
        /\ ChangesFollow(monthly.rows)
        /\ \A k \in 1..Len(monthly.rows) :
              monthly.rows[k].Total =
                 Round2(SumOver(df.rows,
                    {n \in Counted(df.rows, monthly.purchases_only) :
                        /\ ~df.rows[n].Amount.nan
                        /\ YearMonthOf(df.rows[n].Date) = monthly.rows[k].Month}))

\* C10 witness: monthly totals 100, 150, 120 with changes null, 50, -30 and
\* percent changes null, 50, -20
C10_Witness ==
    /\ monthly.set
    /\ Len(monthly.rows) = 3
    /\ [k \in 1..3 |-> monthly.rows[k].Total] = <<100000, 150000, 120000>>
    /\ [k \in 1..3 |-> monthly.rows[k].Change] = <<NaN, Val(50000), Val(-30000)>>
    /\ [k \in 1..3 |-> monthly.rows[k].Change_Pct] = <<RatNaN, Rat(50, 1), Rat(-20, 1)>>

----------------------------------------------------------------------------
(* Properties of the spending velocity, the days covered and the weekdays *)

\* C11 as stated: for a non-empty frame spending_velocity never fails, and its
\* weekly, monthly and annual figures are the daily average times 7, 30.44
\* and 365.
C11_VelocityNeverFails ==
    (velocity.set /\ df.rows # <<>>) =>
        /\ velocity.raised = "none"
        /\ velocity.weekly_average = Times(velocity.daily_average, 700)
        /\ velocity.monthly_projection = Times(velocity.daily_average, 3044)
        /\ velocity.annual_projection = Times(velocity.daily_average, 36500)

\* the day numbers of the dated rows
Ordinals(rows) == {Ordinal(rows[n].Date) : n \in {m \in 1..Len(rows) : ~rows[m].Date.nat}}

Least(S) == CHOOSE a \in S : \A b \in S : a <= b
Greatest(S) == CHOOSE a \in S : \A b \in S : a >= b

\* C12 as stated: days_covered counts the days from the earliest to the latest
\* transaction date, both endpoint days included.
C12_DaysCoveredInclusive ==
    (stats.set /\ Ordinals(df.rows) # {}) =>
        LET days == Least(Ordinals(df.rows))..Greatest(Ordinals(df.rows))
        IN  stats.days_covered = Val(Cardinality(days))

\* C12 amended: days_covered is the latest date minus the earliest in days,
\* one less than the number of days of the span: 0 when every transaction is
\* of one day.
C12_DaysCoveredIsDifference ==
    (stats.set /\ Ordinals(df.rows) # {}) =>
        LET days == Least(Ordinals(df.rows))..Greatest(Ordinals(df.rows))
        IN  /\ stats.days_covered = Val(Cardinality(days) - 1)
            /\ Cardinality(Ordinals(df.rows)) = 1 => stats.days_covered = Val(0)

C12_Witness ==
    /\ stats.set
    /\ Cardinality(Ordinals(df.rows)) >= 2
    /\ stats.days_covered = Val(31)

\* the rows of a weekday, counted from the day number: day 0 was a Thursday
OnWeekday(rows, k) ==
    {n \in 1..Len(rows) : ~rows[n].Date.nat /\ (Ordinal(rows[n].Date) + 3) % 7 = k - 1}

\* C13: day_of_week_analysis returns 7 rows, Monday to Sunday, for every
\* frame; the row of a weekday without a transaction holds nulls.
C13_SevenDaysInOrder ==
    dow.set =>
        /\ Len(dow.rows) = 7
        /\ [k \in 1..7 |-> dow.rows[k].DayOfWeek]
              = <<"Monday", "Tuesday", "Wednesday", "Thursday", "Friday", "Saturday",
                  "Sunday">>
        /\ \A k \in 1..7 :
              IF OnWeekday(df.rows, k) = {}
              THEN /\ dow.rows[k].Total = NaN
                   /\ dow.rows[k].Count = NaN
                   /\ dow.rows[k].Average = NaN
              ELSE dow.rows[k].Count = Val(Cardinality({n \in OnWeekday(df.rows, k) :
                                                           ~df.rows[n].Amount.nan}))

C13_Witness ==
    /\ dow.set
    /\ \E k \in 1..7 : dow.rows[k].Count = NaN
    /\ \E k \in 1..7 : ~dow.rows[k].Count.nan /\ dow.rows[k].Count.v >= 2

----------------------------------------------------------------------------
(* Properties of the recurring charges *)

Merchants(rows) == {rows[n].Description : n \in 1..Len(rows)}

\* the calendar months a merchant has a dated row in
MonthsOf(rows, desc) ==
    {MonthIndex(rows[n].Date) :
        n \in {m \in 1..Len(rows) : rows[m].Description = desc /\ ~rows[m].Date.nat}}

\* the sum of the merchant's amounts in one month, NaN counting as 0
MonthAmount(rows, desc, mi) ==
    SumOver(rows, {n \in 1..Len(rows) :
                      /\ rows[n].Description = desc
                      /\ ~rows[n].Date.nat
                      /\ MonthIndex(rows[n].Date) = mi})

RECURSIVE TotalOfMonths(_, _, _)
TotalOfMonths(rows, desc, S) ==
    IF S = {} THEN 0
    ELSE LET mi == CHOOSE x \in S : TRUE
         IN  MonthAmount(rows, desc, mi) + TotalOfMonths(rows, desc, S \ {mi})

Flagged(desc) == \E k \in 1..Len(recurring.rows) : recurring.rows[k].Description = desc

\* the monthly amounts of the merchant are all the same: deviation 0
SameEveryMonth(rows, desc) ==
    \A a, b \in MonthsOf(rows, desc) : MonthAmount(rows, desc, a) = MonthAmount(rows, desc, b)

\* C14 as stated: a merchant present in exactly threshold_months - 1 months is
\* never flagged, and one present in exactly threshold_months months whose
\* monthly amounts have standard deviation 0 is always flagged.
C14_BoundaryAlwaysFlagged ==
    recurring.set =>
        \A desc \in Merchants(df.rows) :
            LET months == Cardinality(MonthsOf(df.rows, desc))
            IN  /\ months = recurring.threshold_months - 1 => ~Flagged(desc)
                /\ (/\ months = recurring.threshold_months
                    /\ SameEveryMonth(df.rows, desc)) => Flagged(desc)

\* C14 amended: a merchant present in exactly threshold_months - 1 months is
\* never flagged; one present in exactly threshold_months months with the
\* same amount every month is flagged exactly when that amount is above 0.
C14_BoundaryFlaggedWhenPositive ==
    recurring.set =>
        \A desc \in Merchants(df.rows) :
            LET months == Cardinality(MonthsOf(df.rows, desc))
            IN  /\ months = recurring.threshold_months - 1 => ~Flagged(desc)
                /\ (/\ months = recurring.threshold_months
                    /\ SameEveryMonth(df.rows, desc)) =>
                       (Flagged(desc) <=>
                           \A mi \in MonthsOf(df.rows, desc) :
                               MonthAmount(df.rows, desc, mi) > 0)

C14_Witness ==
    /\ recurring.set
    /\ recurring.threshold_months = 2
    /\ Cardinality(MonthsOf(df.rows, "NETFLIX.COM")) = 2
    /\ SameEveryMonth(df.rows, "NETFLIX.COM")
    /\ Flagged("NETFLIX.COM")
    /\ Cardinality(MonthsOf(df.rows, "AMAZON")) = 1
    /\ ~Flagged("AMAZON")

\* C15: Months_Present is the number of distinct calendar months of the
\* merchant, and the average and the deviation are those of the monthly sums:
\* the average is the merchant's total over its months, the deviation is
\* undefined for one month and 0 when every month has the same sum.
C15_StatisticsOfMonthlySums ==
    recurring.set =>
        \A k \in 1..Len(recurring.rows) :
            LET row == recurring.rows[k]
                months == MonthsOf(df.rows, row.Description)
                total == TotalOfMonths(df.rows, row.Description, months)
            IN  /\ row.Months_Present = Cardinality(months)
                /\ row.Avg_Amount = Val(RoundHalfEven(total, Cardinality(months), 10))
                /\ Cardinality(months) = 1 <=> row.Std_Amount = NaN
                /\ (/\ Cardinality(months) >= 2
                    /\ SameEveryMonth(df.rows, row.Description)) => row.Std_Amount = Val(0)

\* two or more charges of one month, and the merchant has one month
C15_Witness ==
    /\ recurring.set
    /\ \E k \in 1..Len(recurring.rows) :
          /\ recurring.rows[k].Description = "NETFLIX.COM"
          /\ recurring.rows[k].Months_Present = 1
          /\ recurring.rows[k].Avg_Amount = Val(20000)
          /\ Cardinality({n \in 1..Len(df.rows) :
                             /\ df.rows[n].Description = "NETFLIX.COM"
                             /\ ~df.rows[n].Date.nat}) >= 2

----------------------------------------------------------------------------
(* Properties of the dashboard's recurring view and subscriptions *)

\* the records with an amount above 0, which are the records of the page
Spending(rows) == SelectSeq(rows, IsPurchase)

Listed(desc) == \E k \in 1..Len(payments.rows) : payments.rows[k].name = desc

\* the merchants find_recurring_charges flags on the given records
FlaggedBy(rows, threshold_months) ==
    LET found == find_recurring_charges(rows, threshold_months)
    IN  {found[k].Description : k \in 1..Len(found)}

\* C16 as stated: on the same positive-amount records the recurring view
\* lists the merchants find_recurring_charges flags with threshold_months = 2.
C16_DashboardMatchesAnalysis ==
    payments.set =>
        LET flagged == FlaggedBy(Spending(df.rows), 2)
        IN  \A desc \in Merchants(df.rows) : Listed(desc) <=> desc \in flagged

\* C16 amended: the recurring view lists a merchant exactly when it has two
\* or more records with an amount above 0, whatever their months and amounts;
\* every merchant find_recurring_charges flags with threshold_months = 2 on
\* those records is listed.
C16_ListedWhenSeenTwice ==
    payments.set =>
        /\ \A desc \in Merchants(df.rows) :
              Listed(desc) <=>
                  Cardinality({n \in 1..Len(df.rows) :
                                  /\ df.rows[n].Description = desc
                                  /\ Gt0(df.rows[n].Amount)}) >= 2
        /\ \A k \in 1..Len(payments.rows) : payments.rows[k].name \in Merchants(df.rows)
        /\ FlaggedBy(Spending(df.rows), 2) \subseteq {desc \in Merchants(df.rows) : Listed(desc)}

\* two charges of one month: listed, and not flagged by the analysis
C16_Witness ==
    /\ payments.set
    /\ Listed("NETFLIX.COM")
    /\ Cardinality(MonthsOf(Spending(df.rows), "NETFLIX.COM")) = 1
    /\ "NETFLIX.COM" \notin FlaggedBy(Spending(df.rows), 2)

\* the entries getSubscriptions returned for a definition of the catalog
EntriesOf(sub) ==
    {k \in 1..Len(subscriptions.rows) :
        /\ subscriptions.rows[k].name = sub.name
        /\ subscriptions.rows[k].expectedAmount = sub.amount
        /\ subscriptions.rows[k].cycle = sub.cycle}

Definitions == Range(SUBSCRIPTIONS)

\* the transactions of the page that fit a definition
Fitting(sub) ==
    {t \in Range(AllTransactions(DATA)) :
        /\ t.Amount > 0
        /\ \E k \in 1..Len(sub.patterns) :
              Contains(str_upper(t.Description), str_upper(sub.patterns[k]))
        /\ t.Amount - sub.amount <= sub.tolerance
        /\ sub.amount - t.Amount <= sub.tolerance}

\* C17: for a definition with an expected amount other than 0 the matched
\* transactions are those with an amount above 0, a description containing
\* one of the patterns whatever the case, and an amount within the tolerance
\* of the expected one: expected + tolerance matches, one cent more does not.
C17_MatchedWithinTolerance ==
    subscriptions.set =>
        \A sub \in Definitions : sub.amount # 0 =>
            \A k \in EntriesOf(sub) :
                LET matched == subscriptions.rows[k].transactions
                    fitting == Fitting(sub)
                IN  /\ Range(matched) = fitting
                    /\ Len(matched) = Cardinality(fitting)
                    /\ \A n \in 1..Len(matched) :
                          /\ matched[n].Amount <= sub.amount + sub.tolerance
                          /\ matched[n].Amount # sub.amount + sub.tolerance + 10

\* Netflix at 15.49 +- 2: the charge of 17.49 is matched, that of 17.50 is not
C17_Witness ==
    /\ subscriptions.set
    /\ SUBSCRIPTIONS = SourceCatalog
    /\ \E t \in Range(AllTransactions(DATA)) : t.Amount = 17500 /\ t.Description = "NETFLIX.COM"
    /\ \E k \in 1..Len(subscriptions.rows) :
          /\ subscriptions.rows[k].name = "Netflix"
          /\ \E n \in 1..Len(subscriptions.rows[k].transactions) :
                subscriptions.rows[k].transactions[n].Amount = 17490
          /\ \A n \in 1..Len(subscriptions.rows[k].transactions) :
                subscriptions.rows[k].transactions[n].Amount # 17500

\* C18: for a definition with an expected amount other than 0 the status is
\* not-found exactly when nothing matched, active for a monthly cycle with 6
\* or more matches and irregular for a monthly cycle with 1 to 5 matches;
\* Netflix against charges of 45.00 and 15.49 has 1 match and is irregular.
C18_StatusFromMatchCount ==
    subscriptions.set =>
        /\ \A sub \in Definitions : sub.amount # 0 =>
              \A k \in EntriesOf(sub) :
                  LET e == subscriptions.rows[k]
                  IN  /\ e.count = Cardinality(Fitting(sub))
                      /\ e.status = "not-found" <=> e.count = 0
                      /\ (sub.cycle = "monthly" /\ e.count >= 6) => e.status = "active"
                      /\ (sub.cycle = "monthly" /\ e.count \in 1..5) => e.status = "irregular"
        /\ (/\ SUBSCRIPTIONS = SourceCatalog
            /\ {<<t.Amount, t.Description>> : t \in Range(AllTransactions(DATA))}
                  = {<<45000, "NETFLIX.COM">>, <<15490, "NETFLIX.COM">>}
            /\ Len(AllTransactions(DATA)) = 2) =>
               \E k \in 1..Len(subscriptions.rows) :
                   /\ subscriptions.rows[k].name = "Netflix"
                   /\ subscriptions.rows[k].count = 1
                   /\ subscriptions.rows[k].status = "irregular"

\* the charges of 45.00 and 15.49: Netflix irregular, Spotify not found
C18_Witness ==
    /\ subscriptions.set
    /\ SUBSCRIPTIONS = SourceCatalog
    /\ [n \in 1..Len(df.rows) |-> <<df.rows[n].Date, df.rows[n].Amount>>]
          = << <<Day(2024, 1, 5), Val(45000)>>, <<Day(2024, 2, 5), Val(15490)>> >>
    /\ \E k \in 1..Len(subscriptions.rows) :
          /\ subscriptions.rows[k].name = "Netflix"
          /\ subscriptions.rows[k].count = 1
          /\ subscriptions.rows[k].status = "irregular"
    /\ \E k \in 1..Len(subscriptions.rows) :
          /\ subscriptions.rows[k].name = "Spotify"
          /\ subscriptions.rows[k].status = "not-found"

\* C19: a definition with expected amount 0 is inactive with no match, a
\* total of 0 and no transaction, whatever transactions fit its patterns.
C19_ZeroAmountInactive ==
    subscriptions.set =>
        \A sub \in Definitions : sub.amount = 0 =>
            /\ EntriesOf(sub) # {}
            /\ \A k \in EntriesOf(sub) :
                  /\ subscriptions.rows[k].status = "inactive"
                  /\ subscriptions.rows[k].count = 0
                  /\ subscriptions.rows[k].total = 0
                  /\ subscriptions.rows[k].transactions = <<>>

\* a $0 Netflix entry on a page with Netflix charges
C19_Witness ==
    /\ subscriptions.set
    /\ \E sub \in Definitions :
          /\ sub.amount = 0
          /\ \E t \in Range(AllTransactions(DATA)) :
                \E k \in 1..Len(sub.patterns) :
                    Contains(str_upper(t.Description), str_upper(sub.patterns[k]))
          /\ \E k \in EntriesOf(sub) : subscriptions.rows[k].status = "inactive"

\* C20: getSubscriptions returns one entry for each definition of the
\* catalog, every inactive entry after every other entry, and the other
\* entries in non-increasing order of the expected monthly equivalent.
C20_OnePerDefinitionInOrder ==
    subscriptions.set =>
        LET rows == subscriptions.rows
        IN  /\ Len(rows) = Len(SUBSCRIPTIONS)
            /\ \A sub \in Definitions :
                  Cardinality(EntriesOf(sub))
                      = Cardinality({k \in 1..Len(SUBSCRIPTIONS) :
                                        /\ SUBSCRIPTIONS[k].name = sub.name
                                        /\ SUBSCRIPTIONS[k].amount = sub.amount
                                        /\ SUBSCRIPTIONS[k].cycle = sub.cycle})
            /\ \A a, b \in 1..Len(rows) : a < b =>
                  /\ rows[a].status = "inactive" => rows[b].status = "inactive"
                  /\ (rows[a].status # "inactive" /\ rows[b].status # "inactive") =>
                        rows[a].expectedMonthly >= rows[b].expectedMonthly

\* the edited catalog: the biannual entry first, the two $0 entries last
C20_Witness ==
    /\ subscriptions.set
    /\ Len(SUBSCRIPTIONS) = 6
    /\ SUBSCRIPTIONS[5].cycle = "biannual"
    /\ [k \in 1..Len(subscriptions.rows) |-> subscriptions.rows[k].expectedMonthly]
          = <<100000, 15490, 10990, 3750, 0, 0>>
    /\ subscriptions.rows[5].status = "inactive"
    /\ subscriptions.rows[6].status = "inactive"
\* the amounts of the transactions of an entry, added up
EntryTotal(entry) == SumTxns(entry.transactions)

\* the calendar months the transactions of an entry fall in
EntryMonths(entry) ==
    {<<SubSeq(entry.transactions[n].Date, 7, 10), SubSeq(entry.transactions[n].Date, 1, 2)>> :
        n \in 1..Len(entry.transactions)}

\* C21: for every entry, whatever its status, expectedMonthly is the expected
\* amount of a monthly definition, a twelfth of it for an annual and a sixth
\* for a biannual one, and actualMonthly is a twelfth of the sum of the
\* matched amounts however many calendar months the matches span; both are
\* given to the cent (their distance to the quotient is half a cent at most).
C21_MonthlyEquivalents ==
    subscriptions.set =>
        \A sub \in Definitions : \A k \in EntriesOf(sub) :
            LET entry == subscriptions.rows[k]
                months == CASE sub.cycle = "annual" -> 12
                            [] sub.cycle = "biannual" -> 6
                            [] OTHER -> 1
            IN  /\ Abs(months * entry.expectedMonthly - sub.amount) <= 5 * months
                /\ entry.expectedMonthly % 10 = 0
                /\ sub.cycle = "monthly" => entry.expectedMonthly = sub.amount
                /\ entry.total = EntryTotal(entry)
                /\ Abs(12 * entry.actualMonthly - EntryTotal(entry)) <= 5 * 12
                /\ entry.actualMonthly % 10 = 0

\* an annual entry of 45.00 matched once (3.75 a month, expected and actual)
\* beside a monthly entry whose two matches fall in two calendar months and
\* average 30.98 / 12 = 2.58
C21_Witness ==
    /\ subscriptions.set
    /\ \E k \in 1..Len(subscriptions.rows) :
          /\ subscriptions.rows[k].cycle = "annual"
          /\ subscriptions.rows[k].expectedAmount = 45000
          /\ subscriptions.rows[k].expectedMonthly = 3750
          /\ subscriptions.rows[k].count = 1
          /\ subscriptions.rows[k].actualMonthly = 3750
    /\ \E k \in 1..Len(subscriptions.rows) :
          /\ subscriptions.rows[k].cycle = "monthly"
          /\ subscriptions.rows[k].total = 30980
          /\ Cardinality(EntryMonths(subscriptions.rows[k])) = 2
          /\ subscriptions.rows[k].actualMonthly = 2580
----------------------------------------------------------------------------
(* Properties of the impulse spending *)

\* the calendar days of a frame on which some category has three rows or more
BusyDays(rows) ==
    {day \in {rows[n].Date : n \in {m \in 1..Len(rows) : ~rows[m].Date.nat}} :
        \E cat \in {rows[n].Category : n \in 1..Len(rows)} :
            /\ cat # NA
            /\ Cardinality({n \in 1..Len(rows) :
                    rows[n].Date = day /\ rows[n].Category = cat}) >= 3}

\* the rows of a frame with an amount under 20 dollars
SmallRows(rows) == {n \in 1..Len(rows) : ~rows[n].Amount.nan /\ rows[n].Amount.v < 20000}

\* C24 as stated: high_frequency_days is the number of calendar days on which
\* a single category has 3 transactions or more, each day counted once, and
\* the small-transaction figures are those of the transactions under 20.
C24_HighFrequencyDaysCountedOnce ==
    impulse.set =>
        /\ impulse.high_frequency_days = Cardinality(BusyDays(df.rows))
        /\ impulse.small_transaction_count = Cardinality(SmallRows(df.rows))

----------------------------------------------------------------------------
(* Properties of the dashboard page *)

\* the transactions of every month and category of the page
PageTransactions ==
    UNION {UNION {Range(DATA.byMonth[m].categories[c].transactions) :
                     c \in 1..Len(DATA.byMonth[m].categories)} :
              m \in 1..Len(DATA.byMonth)}

\* the transactions of the page a definition matches, whatever their month
MatchedAnywhere(sub) ==
    {t \in PageTransactions :
        /\ t.Amount > 0
        /\ \E k \in 1..Len(sub.patterns) :
              Contains(str_upper(t.Description), str_upper(sub.patterns[k]))
        /\ Abs(t.Amount - sub.amount) <= sub.tolerance}

\* C22: what getSubscriptions returns does not depend on the year, the month
\* or the view selected: the subscriptions view shows, under every filter
\* state, the matches over the transactions of every month of DATA.byMonth,
\* and a render under other filters returns the same entries (matches,
\* counts, totals and statuses).
C22_SubscriptionsIgnoreFilters ==
    /\ [](subscriptions.set =>
            \A k \in 1..Len(subscriptions.rows) :
                \E sub \in Range(SUBSCRIPTIONS) :
                    /\ sub.name = subscriptions.rows[k].name
                    /\ subscriptions.rows[k].count = Cardinality(MatchedAnywhere(sub))
                    /\ {[Date |-> t.Date, Amount |-> t.Amount, Description |-> t.Description] :
                           t \in Range(subscriptions.rows[k].transactions)}
                          = MatchedAnywhere(sub))
    /\ [][(subscriptions.set /\ subscriptions'.set) => subscriptions' = subscriptions]_vars

\* the subscriptions view rendered under March 2024: Netflix has its two
\* charges, of December 2023 and of February 2024
C22_Witness ==
    /\ currentView = "subscriptions"
    /\ currentYear = "2024"
    /\ currentMonth = "03"
    /\ subscriptions.set
    /\ \E k \in 1..Len(subscriptions.rows) :
          /\ subscriptions.rows[k].name = "Netflix"
          /\ subscriptions.rows[k].count = 2
          /\ subscriptions.rows[k].total = 30980
          /\ {t.Date : t \in Range(subscriptions.rows[k].transactions)}
                = {"12/31/2023", "02/05/2024"}
\* a description one of the exclusion patterns finds a text in
Excluded(desc) ==
    \E text \in {"HOT DOG", "HOTDOG", "BREWDOG", "DOG HAUS", "DOGHAUS"} :
        Contains(str_upper(desc), text)

\* the rules of DOG_PATTERNS that find a text in a description
RulesFor(desc) ==
    {k \in 1..Len(DOG_PATTERNS) :
        \E text \in DOG_PATTERNS[k].pattern : Contains(str_upper(desc), text)}

\* C23: getDogData returns exactly the transactions of the page with an
\* amount above 0, a description no exclusion pattern matches and at least
\* one rule matches, each once; the sub-category is that of the first rule
\* in list order that matches; a description both excluded and matched by a
\* rule is left out, and so is a transaction no rule matches (there is no
\* 'Other' sub-category).
C23_DogTransactions ==
    dog.set =>
        /\ {[Date |-> t.Date, Amount |-> t.Amount, Description |-> t.Description] :
                t \in Range(dog.rows)}
              = {t \in PageTransactions :
                    /\ t.Amount > 0
                    /\ ~Excluded(t.Description)
                    /\ RulesFor(t.Description) # {}}
        /\ \A a, b \in 1..Len(dog.rows) :
              (/\ dog.rows[a].Date = dog.rows[b].Date
               /\ dog.rows[a].Amount = dog.rows[b].Amount
               /\ dog.rows[a].Description = dog.rows[b].Description) => a = b
        /\ \A n \in 1..Len(dog.rows) :
              LET rules == RulesFor(dog.rows[n].Description)
              IN  /\ dog.rows[n].dogCategory = DOG_PATTERNS[Least(rules)].category
                  /\ dog.rows[n].dogCategory # "Other"

\* a page with 'PETSMART 123', 'Chewy PetMed' (the rules of Pet Store and of
\* Medications match: Pet Store), 'CORVETTE PARTS' (vet), 'Hot Dog Vet'
\* (excluded and matched), 'NETFLIX.COM' (no rule) and a CHEWY charge of 0.00
C23_Witness ==
    /\ dog.set
    /\ {<<t.Description, t.dogCategory>> : t \in Range(dog.rows)}
          = {<<"PETSMART 123", "Pet Store">>, <<"Chewy PetMed", "Pet Store">>,
             <<"CORVETTE PARTS", "Vet">>}
    /\ \E t \in PageTransactions : t.Description = "Hot Dog Vet"
    /\ \E t \in PageTransactions : t.Description = "NETFLIX.COM"
    /\ \E t \in PageTransactions : t.Description = "CHEWY" /\ t.Amount = 0

\* C27: the transactions and the refunds of process_business_data share no
\* entry: every transaction has an amount > 0, every refund an amount < 0, a
\* record with a zero or null amount is in neither list, and every entry
\* carries the service of the first pattern row with a keyword in its
\* upper-cased description (so a record without such a row is not listed).
C27_ListsDisjoint ==
    (business.set /\ ~business.raised) =>
        LET Hits(desc) ==
                {n \in 1..Len(patterns) :
                    \E j \in 1..Len(patterns[n].keywords) :
                        Contains(str_upper(desc), patterns[n].keywords[j])}
            FirstService(e) ==
                /\ Hits(e.description) # {}
                /\ \E n \in Hits(e.description) :
                      /\ \A m \in Hits(e.description) : n <= m
                      /\ e.service = patterns[n].service
            both == Range(business.transactions) \cup Range(business.refunds)
        IN  /\ Range(business.transactions) \cap Range(business.refunds) = {}
            /\ \A e \in Range(business.transactions) : Gt0(e.amount) /\ FirstService(e)
            /\ \A e \in Range(business.refunds) : Lt0(e.amount) /\ FirstService(e)
            /\ \A e \in both : ~e.amount.nan /\ e.amount.v # 0

\* C28: over one list of sources the three loaders return the same records:
\* all three raise, or none does and the records of analysis.load_transactions
\* and of the business loader are, in order, the records of
\* generate_dashboard.load_transactions (the same rows kept, duplicates
\* collapsed, Schema B files reconciled).
C28_LoadersAgree ==
    (pc # "loop" /\ analysis_df.set /\ business_df.set) =>
        LET Canon(rows) == [n \in 1..Len(rows) |-> Base(rows[n])]
        IN  IF pc = "error"
            THEN analysis_df.raised # "none" /\ business_df.raised # "none"
            ELSE /\ analysis_df.raised = "none"
                 /\ business_df.raised = "none"
                 /\ Canon(analysis_df.rows) = Canon(df.rows)
                 /\ Canon(business_df.rows) = Canon(df.rows)

\* C29: on the open page the selected period is always valid: currentYear is
\* one of DATA.years and currentMonth is 'all' or a month with an entry of
\* DATA.byMonth in currentYear; and every change of the year leaves
\* currentMonth at 'all'.
C29_SelectedPeriodValid ==
    /\ [](pc = "open" =>
            /\ currentYear \in Range(DATA.years)
            /\ \/ currentMonth = "all"
               \/ \E k \in 1..Len(DATA.byMonth) :
                     DATA.byMonth[k].ym = currentYear \o "-" \o currentMonth)
    /\ [][currentYear' # currentYear => currentMonth' = "all"]_vars

\* C30: no pin survives a render: the page opens with, and every view-tab
\* click and every year or month change leaves, pinnedCategory = null,
\* expandedTooltip = false and currentTooltipData = null; and whenever
\* expandedTooltip is true a tooltip is pinned.
C30_RenderUnpins ==
    /\ pc = "open" => (pinnedCategory = null /\ ~expandedTooltip /\ currentTooltipData = Unset)
    /\ [][(ViewTabClick \/ YearFilterChange \/ MonthFilterChange) =>
            /\ pinnedCategory' = null
            /\ expandedTooltip' = FALSE
            /\ currentTooltipData' = Unset
            /\ ~tooltip'.pinned]_vars
    /\ [](expandedTooltip => pinnedCategory # null)

\* C30 witness: the tooltip was expanded (its collapse link is still in it) and
\* a click on the dining tab has rendered: nothing is pinned or expanded
C30_Witness ==
    /\ currentView = "dining"
    /\ tooltip.link = "collapse"
    /\ ~tooltip.visible
    /\ pinnedCategory = null
    /\ ~expandedTooltip

----------------------------------------------------------------------------
(* Properties of the whole tool *)

\* C25: no analysis function, process_data included, and no render or event
\* handler of the page changes the loaded frame (its rows, columns and
\* values), and a DATA structure that exists is never changed.
C25_InputsUntouched ==
    [][df' = df /\ (DATA.set => DATA' = DATA)]_vars

\* C25 witness: every analysis function has run over a frame of four records
C25_Witness ==
    /\ pc = "done"
    /\ Len(df.rows) = 4
    /\ stats.set /\ breakdown.set /\ monthly.set /\ merchants.set
    /\ dow.set /\ recurring.set /\ impulse.set /\ DATA.set
    /\ DATA.raised = "none"

\* C26: in the output of process_data every record with an amount above zero
\* stands in exactly one bucket, that of its month and category, and the
\* buckets hold nothing else; so the total of every month is the sum of its
\* categories' totals and the counts of its categories add up to its
\* purchases, also when records have no category.
C26_EveryPurchaseInOneBucket ==
    (pc = "done" /\ DATA.set /\ DATA.raised = "none") =>
        LET spending == SelectSeq(df.rows, IsPurchase)
            Cats(m) == DATA.byMonth[m].categories
            Slots == {e \in (1..Len(DATA.byMonth)) \X (1..Len(spending)) \X (1..Len(spending)) :
                         /\ e[2] <= Len(Cats(e[1]))
                         /\ e[3] <= Len(Cats(e[1])[e[2]].transactions)}
            Holds(e, r) ==
                /\ DATA.byMonth[e[1]].ym = r.YearMonth
                /\ Cats(e[1])[e[2]].category = r.Category
                /\ Cats(e[1])[e[2]].transactions[e[3]] =
                      [Date |-> Strftime(r.Date), Amount |-> Round2(r.Amount.v),
                       Description |-> r.Description]
        IN  /\ \A n \in 1..Len(spending) :
                  Cardinality({e \in Slots : Holds(e, spending[n])}) = 1
            /\ Cardinality(Slots) = Len(spending)
            /\ \A m \in 1..Len(DATA.byMonth) :
                  LET InYm(r) == r.YearMonth = DATA.byMonth[m].ym
                  IN  /\ DATA.byMonth[m].total =
                            SumSeq([c \in 1..Len(Cats(m)) |-> Cats(m)[c].total])
                      /\ Len(SelectSeq(spending, InYm)) =
                            SumSeq([c \in 1..Len(Cats(m)) |-> Cats(m)[c].count])

====
